---- MODULE Spec2Model ----
(***************************************************************************)
(* Stitches: an incremental pipeline runner.  The model follows            *)
(* stitches/core.py (load, analyse, execute, the decision trees) and the   *)
(* top-level run context of stitches/cli.py (main).                        *)
(*                                                                         *)
(* A resource reference string "<kind>/<locator>" is represented by its    *)
(* split at the first "/", the pair <<kind, locator>>.  A task fingerprint *)
(* (md5 of the sorted-key JSON dump of the contributing fields) is         *)
(* represented by the record of exactly those fields: two fingerprints are *)
(* equal iff the dumped objects are equal.                                 *)
(***************************************************************************)
EXTENDS Naturals, Sequences, FiniteSets, TLC

\* ------------------------------------------------------------------ bounds
MaxTasks == 2
MaxRuns == 3
MaxTime == 7
MaxChanges == 1
MaxRaises == 1
MaxOverridden == 1
MaxEntries == 3
MaxLocator == 7

\* ---------------------------------------------------------------- universe
None == "None"

FileA == <<"file", "a">>
FileB == <<"file", "b">>
VecX == <<"vector", "x">>
Refs == {FileA, FileB, VecX}
Paths == {r[2] : r \in {q \in Refs : q[1] = "file"}}
Maps == {<<r[1], r[2]>> : r \in {q \in Refs : q[1] # "file"}}
Regions == {0, 1}
Messages == {"m", "n"}

\* --------------------------------------------------------------- variables
VARIABLES
    pipeline,   \* the pipeline definition: the list of task entries of the file
    fs,         \* platform: the paths of the files that exist
    mtime,      \* platform: path -> modification time
    maps,       \* platform: the <<type, name>> of the maps that exist
    region,     \* platform: what the current region hashes to
    disk,       \* stitches.state.json: the persisted history
    history,    \* State.history of the running process
    stream,     \* the loaded events of this run; a task's status is set in place
    idx,        \* position in the stream of the event analyse last yielded
    pc,         \* where the process is
    opts,       \* the overrides of this run: force, skip, only
    created,    \* StatusContext.created: resource ref -> ref of the creating task
    statuses,   \* StatusContext.statuses: task ref -> status
    completed,  \* analyse's set of fingerprints encountered
    region_hash,\* analyse's local: the region hash read after classification
    events,     \* the lifecycle events main has received in this run
    calls,      \* the refs of the tasks whose callable was invoked in this run
    code,       \* exit code of the last finished run
    run,        \* number of runs started
    start,      \* the platform and the history as they were when this run started
    prev,       \* summary of the previous run
    since,      \* what changed outside the program since the last run ended
    raises,     \* number of callables that raised so far
    changes,    \* number of changes made outside the program so far
    overridden, \* number of runs started with an override so far
    jinja_env,  \* load: template name -> the configuration it renders to
    gisdbase,   \* load: the gisdbase argument
    location,   \* load: the location argument, which the loop assigns to
    mapset,     \* load: the mapset argument
    stack,      \* load: the stack of entries to process, top at the end
    locations,  \* load: the list of locations entered
    yielded,    \* the events load has yielded so far, in order
    session,    \* the scope the session collaborator was given
    executed,   \* the tasks execute has handled, each with the session's scope
    entered,    \* per yielded event: how load came to yield it
    passed,     \* the entries load popped and went on from, yielding nothing
    _ref,       \* Resource(ref): the reference string given
    constructed \* Resource(ref): the object constructed, or the exception raised

runVars == <<pipeline, fs, mtime, maps, region, disk, history, stream, idx, pc,
             opts, created, statuses, completed, region_hash, events, calls,
             code, run, start, prev, since, raises, changes, overridden>>

loadVars == <<jinja_env, gisdbase, location, mapset, stack, locations, yielded,
              session, executed, entered, passed>>

resourceVars == <<_ref, constructed>>

vars == <<runVars, loadVars, resourceVars>>

platformVars == <<fs, mtime, maps, region>>
boundVars == <<raises, changes, overridden>>
plannerVars == <<created, statuses, completed, region_hash>>

\* ----------------------------------------------------------------- helpers
Range(s) == {s[i] : i \in 1..Len(s)}

\* dict.get(key, default)
Get(d, k, default) == IF k \in DOMAIN d THEN d[k] ELSE default

\* d[k] = v on a dict
Put(d, k, v) == [x \in DOMAIN d \cup {k} |-> IF x = k THEN v ELSE d[x]]

\* del d[k] for a key that is present
Del(d, k) == [x \in DOMAIN d \ {k} |-> d[x]]

EmptyDict == <<>>

\* ---------------------------------------------------------------- Resource
Resource(ref) ==
    IF ref[1] = "file"
    THEN [_ref |-> ref, type |-> ref[1], path |-> ref[2]]
    ELSE [_ref |-> ref, type |-> ref[1], name |-> ref[2],
          gisdbase |-> None, location |-> None, mapset |-> None]

\* str.split(sep, 1) and str.split(sep)
Find(str, sep) ==
    IF \E i \in 1..Len(str) : str[i] = sep
    THEN CHOOSE i \in 1..Len(str) :
            str[i] = sep /\ \A j \in 1..(i - 1) : str[j] # sep
    ELSE 0

Split1(str, sep) ==
    LET i == Find(str, sep)
    IN  IF i = 0 THEN <<str>>
        ELSE <<SubSeq(str, 1, i - 1), SubSeq(str, i + 1, Len(str))>>

RECURSIVE Split(_, _)
Split(str, sep) ==
    LET i == Find(str, sep)
    IN  IF i = 0 THEN <<str>>
        ELSE <<SubSeq(str, 1, i - 1)>>
                \o Split(SubSeq(str, i + 1, Len(str)), sep)

reversed(seq) == [i \in 1..Len(seq) |-> seq[Len(seq) + 1 - i]]

\* next(it, None) on the iterator over seq, for its k-th call
next(seq, k) ==
    IF k <= Len(seq) THEN [kind |-> "str", v |-> seq[k]] ELSE [kind |-> "None"]

\* an exception raised with the given message
Raise(exception) == [raises |-> exception]

\* Resource.__init__ on the reference string itself
Resource__init__(str) ==
    LET parts == Split1(str, "/")
    IN  IF Len(parts) # 2 THEN Raise("ValueError")
        ELSE LET type_ == parts[1]
                 rest == parts[2]
             IN  IF type_ = <<"file">>
                 THEN [type |-> type_, path |-> rest]
                 ELSE IF type_ \in {<<"vector">>, <<"raster">>}
                 THEN LET components == Split1(rest, "@")
                      IN  IF Len(components) = 1
                          THEN [type |-> type_, name |-> components[1],
                                gisdbase |-> [kind |-> "None"],
                                location |-> [kind |-> "None"],
                                mapset |-> [kind |-> "None"]]
                          ELSE IF Len(components) = 2
                          THEN LET segments ==
                                       reversed(Split(components[2], "/"))
                               IN  [type |-> type_, name |-> components[1],
                                    mapset |-> next(segments, 1),
                                    location |-> next(segments, 2),
                                    gisdbase |-> next(segments, 3)]
                          ELSE Raise("Malformed GRASS name")
                 ELSE Raise("Invalid resource type")

\* mutant: the message contributes to the fingerprint
_object_checksum_WithMessage(obj) ==
    [task |-> obj.task, params |-> obj.params, inputs |-> obj.inputs,
     outputs |-> obj.outputs, removes |-> obj.removes,
     message |-> obj.message]

\* the fingerprint of the contributing fields of a task entry
_object_checksum(obj) ==
    [task |-> obj.task, params |-> obj.params, inputs |-> obj.inputs,
     outputs |-> obj.outputs, removes |-> obj.removes]

\* ---------------------------------------------------------------- Platform
file_mtime(path) == mtime[path]

file_exists(path) == path \in fs

map_exists(type_, name) == <<type_, name>> \in maps

Platform_region_hash == region

\* ----------------------------------------------------------- task statuses
EXISTS == "exists"
CHANGE == "change"
NOCHANGE == "nochange"
UNKNOWN == "unknown"
INPUT_FAIL == "fail"
RUN == "run"
SKIP == "skip"
FAIL == "fail"

\* StatusContext, as the decision trees read it
planner ==
    [history |-> history, created |-> created, statuses |-> statuses,
     force |-> opts.force, skip |-> opts.skip, only |-> opts.only]

_is_grass_map(p, resource) == resource.type # "file"

_grass_map_exists(p, resource) == map_exists(resource.type, resource.name)

_creator_visible(p, resource) == resource._ref \in DOMAIN p.created

\* mutant: the creator's status is never seen as a change
_creator_changed_Never(p, resource) == FALSE

_creator_changed(p, resource) == p.statuses[p.created[resource._ref]] # SKIP

_is_file(p, resource) == resource.type = "file"

_file_exists(p, resource) == file_exists(resource.path)

_file_has_previous(p, t, resource) ==
    resource._ref \in DOMAIN Get(Get(p.history, t.hash, EmptyDict), "inputs", EmptyDict)

_file_mtime_recent(p, t, resource) ==
    LET previous == p.history[t.hash].inputs[resource._ref]
        current == file_mtime(resource.path)
    IN  current > previous

\* mutant: no task is taken as marked always
_task_always_Never(p, t) == FALSE

_task_always(p, t) == t.always

\* mutant: every output is taken to exist
_OUTPUT_DECISION_TREE_Exists(p, resource) == EXISTS

_OUTPUT_DECISION_TREE(p, resource) ==
    IF _is_grass_map(p, resource)
    THEN IF _grass_map_exists(p, resource) THEN EXISTS ELSE None
    ELSE IF _is_file(p, resource)
         THEN IF _file_exists(p, resource) THEN EXISTS ELSE None
         ELSE None

\* mutant: a map without a visible creator counts as unchanged
_INPUT_DECISION_TREE_UnknownAsNoChange(p, t, resource) ==
    IF _is_grass_map(p, resource)
    THEN IF _grass_map_exists(p, resource)
         THEN IF _creator_visible(p, resource)
              THEN IF _creator_changed(p, resource) THEN CHANGE ELSE NOCHANGE
              ELSE NOCHANGE
         ELSE INPUT_FAIL
    ELSE IF _is_file(p, resource)
         THEN IF _file_exists(p, resource)
              THEN IF _file_has_previous(p, t, resource)
                   THEN IF _file_mtime_recent(p, t, resource)
                        THEN CHANGE ELSE NOCHANGE
                   ELSE CHANGE
              ELSE INPUT_FAIL
         ELSE INPUT_FAIL

_INPUT_DECISION_TREE(p, t, resource) ==
    IF _is_grass_map(p, resource)
    THEN IF _grass_map_exists(p, resource)
         THEN IF _creator_visible(p, resource)
              THEN IF _creator_changed(p, resource) THEN CHANGE ELSE NOCHANGE
              ELSE UNKNOWN
         ELSE INPUT_FAIL
    ELSE IF _is_file(p, resource)
         THEN IF _file_exists(p, resource)
              THEN IF _file_has_previous(p, t, resource)
                   THEN IF _file_mtime_recent(p, t, resource)
                        THEN CHANGE ELSE NOCHANGE
                   ELSE CHANGE
              ELSE INPUT_FAIL
         ELSE INPUT_FAIL

\* mutant: the always flag is tested before only and the skip list
_TASK_DECISION_TREE_AlwaysFirst(p, t) ==
    IF p.force
    THEN RUN
    ELSE IF _task_always(p, t)
         THEN RUN
         ELSE IF p.only # None
              THEN IF t.ref = p.only THEN RUN ELSE SKIP
              ELSE IF p.skip.given /\ t.ref \in p.skip.refs
                   THEN SKIP ELSE None

_TASK_DECISION_TREE(p, t) ==
    IF p.force
    THEN RUN
    ELSE IF p.only # None
         THEN IF t.ref = p.only THEN RUN ELSE SKIP
         ELSE IF p.skip.given
              THEN IF t.ref \in p.skip.refs
                   THEN SKIP
                   ELSE IF _task_always(p, t) THEN RUN ELSE None
              ELSE IF _task_always(p, t) THEN RUN ELSE None

\* the statuses of the inputs of a task, in order
InputStatuses(p, t) ==
    [i \in 1..Len(t.inputs) |-> _INPUT_DECISION_TREE(p, t, t.inputs[i])]

\* mutant: the inputs of unknown provenance are looked at before the failures
_task_status_UnknownFirst(p, t) ==
    LET status == _TASK_DECISION_TREE(p, t)
        non_existing ==
            {i \in 1..Len(t.outputs) :
                _OUTPUT_DECISION_TREE(p, t.outputs[i]) # EXISTS}
    IN  IF status # None THEN status
        ELSE IF non_existing # {} THEN RUN
        ELSE IF t.hash \notin DOMAIN p.history THEN RUN
        ELSE IF p.history[t.hash].region # Platform_region_hash THEN RUN
        ELSE LET st == InputStatuses(p, t)
                 failures == {i \in DOMAIN st : st[i] = INPUT_FAIL}
                 unknowns == {i \in DOMAIN st : st[i] = UNKNOWN}
                 result == IF \E i \in DOMAIN st : st[i] = CHANGE
                           THEN RUN ELSE SKIP
             IN  IF unknowns # {} THEN RUN
                 ELSE IF failures # {} THEN FAIL
                 ELSE result

\* mutant: the region hash of the record is not looked at
_task_status_NoRegionCheck(p, t) ==
    LET status == _TASK_DECISION_TREE(p, t)
        non_existing ==
            {i \in 1..Len(t.outputs) :
                _OUTPUT_DECISION_TREE(p, t.outputs[i]) # EXISTS}
    IN  IF status # None THEN status
        ELSE IF non_existing # {} THEN RUN
        ELSE IF t.hash \notin DOMAIN p.history THEN RUN
        ELSE LET st == InputStatuses(p, t)
                 failures == {i \in DOMAIN st : st[i] = INPUT_FAIL}
                 unknowns == {i \in DOMAIN st : st[i] = UNKNOWN}
                 result == IF \E i \in DOMAIN st : st[i] = CHANGE
                           THEN RUN ELSE SKIP
             IN  IF failures # {} THEN FAIL
                 ELSE IF unknowns # {} THEN RUN
                 ELSE result

\* mutant: a task without a record is classified by its inputs
_task_status_NoHistoryCheck(p, t) ==
    LET status == _TASK_DECISION_TREE(p, t)
        non_existing ==
            {i \in 1..Len(t.outputs) :
                _OUTPUT_DECISION_TREE(p, t.outputs[i]) # EXISTS}
    IN  IF status # None THEN status
        ELSE IF non_existing # {} THEN RUN
        ELSE IF /\ t.hash \in DOMAIN p.history
                /\ p.history[t.hash].region # Platform_region_hash THEN RUN
        ELSE LET st == InputStatuses(p, t)
                 failures == {i \in DOMAIN st : st[i] = INPUT_FAIL}
                 unknowns == {i \in DOMAIN st : st[i] = UNKNOWN}
                 result == IF \E i \in DOMAIN st : st[i] = CHANGE
                           THEN RUN ELSE SKIP
             IN  IF failures # {} THEN FAIL
                 ELSE IF unknowns # {} THEN RUN
                 ELSE result

_task_status(p, t) ==
    LET status == _TASK_DECISION_TREE(p, t)
        non_existing ==
            {i \in 1..Len(t.outputs) :
                _OUTPUT_DECISION_TREE(p, t.outputs[i]) # EXISTS}
    IN  IF status # None THEN status
        ELSE IF non_existing # {} THEN RUN
        ELSE IF t.hash \notin DOMAIN p.history THEN RUN
        ELSE IF p.history[t.hash].region # Platform_region_hash THEN RUN
        ELSE LET st == InputStatuses(p, t)
                 failures == {i \in DOMAIN st : st[i] = INPUT_FAIL}
                 unknowns == {i \in DOMAIN st : st[i] = UNKNOWN}
                 result == IF \E i \in DOMAIN st : st[i] = CHANGE
                           THEN RUN ELSE SKIP
             IN  IF failures # {} THEN FAIL
                 ELSE IF unknowns # {} THEN RUN
                 ELSE result

\* -------------------------------------------------------------------- load
\* one task entry of a pipeline file -> TaskEvent (root level: ref = str(i))
TaskEvent(options, i) ==
    [task |-> options.task,
     pipeline |-> "root",
     ref |-> ToString(i),
     hash |-> _object_checksum(options),
     message |-> options.message,
     params |-> options.params,
     always |-> options.always,
     inputs |-> [k \in 1..Len(options.inputs) |-> Resource(options.inputs[k])],
     outputs |-> [k \in 1..Len(options.outputs) |-> Resource(options.outputs[k])],
     removes |-> [k \in 1..Len(options.removes) |-> Resource(options.removes[k])],
     status |-> None]

\* the stream of a pipeline whose entries are all tasks, after main has taken
\* the root LocationEvent off its front
load(tasks) == [i \in 1..Len(tasks) |-> TaskEvent(tasks[i], i - 1)]

\* ------------------------------------------------------------------- tasks
\* What the callable of a task does to the platform when it returns: it
\* writes its declared outputs and deletes what it declares to remove; a
\* "grass" task with a non-zero parameter is a region-setting module.
RECURSIVE WriteAll(_, _)
WriteAll(p, resources) ==
    IF resources = <<>> THEN p
    ELSE LET r == Head(resources)
             q == IF r.type = "file"
                  THEN [p EXCEPT !.fs = @ \cup {r.path},
                                 !.mtime[r.path] = @ + 1]
                  ELSE [p EXCEPT !.maps = @ \cup {<<r.type, r.name>>}]
         IN  WriteAll(q, Tail(resources))

RECURSIVE DeleteAll(_, _)
DeleteAll(p, resources) ==
    IF resources = <<>> THEN p
    ELSE LET r == Head(resources)
             q == IF r.type = "file"
                  THEN [p EXCEPT !.fs = @ \ {r.path}]
                  ELSE [p EXCEPT !.maps = @ \ {<<r.type, r.name>>}]
         IN  DeleteAll(q, Tail(resources))

Platform == [fs |-> fs, mtime |-> mtime, maps |-> maps, region |-> region]

function(t) ==
    LET written == DeleteAll(WriteAll(Platform, t.outputs), t.removes)
    IN  IF t.task = "grass" /\ t.params # 0
        THEN [written EXCEPT !.region = t.params]
        ELSE written

\* the callable can return with every file it writes stamped within MaxTime
CanStamp(t) ==
    \A i \in 1..Len(t.outputs) :
        t.outputs[i].type = "file" => mtime[t.outputs[i].path] < MaxTime

\* the task entries pipelines are written from
Entry(task, params, inputs, outputs, removes, always) ==
    [task |-> task, params |-> params, inputs |-> inputs, outputs |-> outputs,
     removes |-> removes, message |-> "m", always |-> always]

Catalog ==
    {Entry("script", 0, <<FileA>>, <<VecX>>, <<>>, FALSE),
     Entry("script", 0, <<VecX, FileA>>, <<FileB>>, <<>>, FALSE),
     Entry("script", 0, <<FileB>>, <<>>, <<>>, FALSE),
     Entry("script", 0, <<>>, <<FileB>>, <<>>, FALSE),
     Entry("script", 0, <<>>, <<>>, <<VecX>>, FALSE),
     Entry("grass", 1, <<>>, <<>>, <<>>, FALSE),
     Entry("grass", 2, <<>>, <<>>, <<>>, FALSE),
     Entry("script", 1, <<FileA>>, <<>>, <<>>, TRUE)}

Pipelines == UNION {[1..n -> Catalog] : n \in 1..MaxTasks}

\* ------------------------------------------------- load: nested pipelines
\* Values of the scope fields. A field holds a string, Python's None, or,
\* since load assigns the LocationEvent it builds to its `location` argument,
\* a LocationEvent object.
Str(v) == [kind |-> "str", v |-> v]
PyNone == [kind |-> "None"]
Absent == [kind |-> "absent"]

LocationEvent(g, l, m) ==
    [kind |-> "LocationEvent", gisdbase |-> g, location |-> l, mapset |-> m]

\* d.get(key, default), for the value v the dict holds under key (or Absent)
GetOr(v, default) == IF v = Absent THEN default ELSE v

\* the TaskEvent load yields for a task entry at reference path ref of
\* pipeline parent
LoadedTask(parent, ref, options) ==
    [TaskEvent(options, 0) EXCEPT !.ref = ref, !.pipeline = parent]

\* a stack entry ('config', (parent, ref, options)); caller is the
\* LocationEvent yielded on entering the pipeline that holds the entry
Config(parent, ref, options, caller) ==
    [tag |-> "config", parent |-> parent, ref |-> ref, options |-> options,
     caller |-> caller]

\* mutant: the reference path is the index alone
Tref_IndexOnly(ref, i) == ToString(i)

\* str(i) if ref is None else '{}/{}'.format(ref, i)
Tref(ref, i) == IF ref = None THEN ToString(i) ELSE ref \o "/" \o ToString(i)

\* mutant: the tasks are pushed in declared order
PushTasks_Forward(name, ref, tasks, caller) ==
    [k \in 1..Len(tasks) |-> Config(name, Tref(ref, k - 1), tasks[k], caller)]

\* for (i, task) in reversed(tasks): stack.append(('config', (name, tref, task)))
PushTasks(name, ref, tasks, caller) ==
    [k \in 1..Len(tasks) |->
        Config(name, Tref(ref, Len(tasks) - k),
               tasks[Len(tasks) + 1 - k], caller)]

\* stack.pop() takes the last element
Top == stack[Len(stack)]
Popped == SubSeq(stack, 1, Len(stack) - 1)

\* load, one turn of the loop for a ('location', data) entry: the event is
\* yielded; analyse passes it on and execute drops it
LoadLocation ==
    /\ stack # <<>>
    /\ Top.tag = "location"
    /\ stack' = Popped
    /\ yielded' = Append(yielded, Top.data)
    /\ entered' = Append(entered, [how |-> "restore", caller |-> Top.caller])
    /\ UNCHANGED <<resourceVars, runVars, jinja_env, gisdbase, location, mapset, locations,
                   session, executed, passed>>

\* load, one turn of the loop for a pipeline entry: its LocationEvent is
\* yielded, the previous location and the tasks are pushed. main takes the
\* first event of the stream for the session; analyse passes every other
\* LocationEvent on and execute drops it
LoadPipeline ==
    /\ stack # <<>>
    /\ Top.tag = "config"
    /\ "pipeline" \in DOMAIN Top.options
    /\ LET name == Top.options.pipeline
           params == Top.options.params
           gisdbase_ == GetOr(params.gisdbase, gisdbase)
           location_ == GetOr(params.location, location)
           mapset_ == GetOr(params.mapset, mapset)
           config == jinja_env[name]
           event == LocationEvent(GetOr(config.gisdbase, gisdbase_),
                                  GetOr(config.location, location_),
                                  GetOr(config.mapset, mapset_))
           restore == IF locations # <<>>
                      THEN <<[tag |-> "location",
                              data |-> locations[Len(locations)],
                              caller |-> Top.caller]>>
                      ELSE <<>>
       IN  /\ location' = event
           /\ yielded' = Append(yielded, event)
           /\ entered' = Append(entered,
                  [how |-> "enter", caller |-> Top.caller,
                   inherits |-> /\ params.gisdbase = Absent
                                /\ params.location = Absent
                                /\ params.mapset = Absent
                                /\ config.gisdbase = Absent
                                /\ config.location = Absent
                                /\ config.mapset = Absent])
           /\ locations' =
                Append(IF locations # <<>>
                       THEN SubSeq(locations, 1, Len(locations) - 1)
                       ELSE locations, event)
           /\ stack' = Popped \o restore
                         \o PushTasks(name, Top.ref, config.tasks, event)
           /\ session' = IF yielded = <<>> THEN event ELSE session
    /\ UNCHANGED <<resourceVars, runVars, jinja_env, gisdbase, mapset, executed, passed>>

\* load, one turn of the loop for a task entry: its TaskEvent is yielded;
\* analyse classifies it and execute handles it in the session as it is
LoadTask ==
    /\ stack # <<>>
    /\ Top.tag = "config"
    /\ "task" \in DOMAIN Top.options
    /\ stack' = Popped
    /\ yielded' = Append(yielded,
                         LoadedTask(Top.parent, Top.ref, Top.options))
    /\ entered' = Append(entered, [how |-> "task", caller |-> Top.caller])
    /\ executed' = Append(executed, [ref |-> Top.ref, scope |-> session])
    /\ UNCHANGED <<resourceVars, runVars, jinja_env, gisdbase, location, mapset, locations,
                   session, passed>>

\* load, one turn of the loop for an entry with neither a 'pipeline' nor a
\* 'task' key: neither branch is taken and the loop goes on to the next entry
LoadOther ==
    /\ stack # <<>>
    /\ Top.tag = "config"
    /\ "pipeline" \notin DOMAIN Top.options
    /\ "task" \notin DOMAIN Top.options
    /\ stack' = Popped
    /\ passed' = Append(passed, [ref |-> Top.ref, pipeline |-> Top.parent])
    /\ UNCHANGED <<resourceVars, runVars, jinja_env, gisdbase, location, mapset, locations,
                   yielded, session, executed, entered>>

\* -------------------------------------------------------------------- Init
\* before the first run either every file and map is there, or only the
\* source file that no task writes
InitialPlatforms == {[fs |-> Paths, maps |-> Maps], [fs |-> {"a"}, maps |-> {}]}

NoRun == [code |-> 0, stream |-> <<>>, opts |-> None, start |-> None,
          events |-> <<>>]

\* main passes force=False, skip=[] and only=None when no flag is given
NoOverrides == [force |-> FALSE, skip |-> [given |-> TRUE, refs |-> {}], only |-> None]

\* the process has not run yet
RunIdle ==
    /\ mtime = [p \in Paths |-> 0]
    /\ region = 0
    /\ disk = EmptyDict
    /\ history = EmptyDict
    /\ stream = <<>>
    /\ idx = 0
    /\ pc = "idle"
    /\ opts = NoOverrides
    /\ created = EmptyDict
    /\ statuses = EmptyDict
    /\ completed = {}
    /\ region_hash = 0
    /\ events = <<>>
    /\ calls = <<>>
    /\ code = 0
    /\ run = 0
    /\ start = None
    /\ prev = NoRun
    /\ since = {}
    /\ raises = 0
    /\ changes = 0
    /\ overridden = 0

\* load is not in use
LoadIdle ==
    /\ jinja_env = <<>>
    /\ gisdbase = None
    /\ location = None
    /\ mapset = None
    /\ stack = <<>>
    /\ locations = <<>>
    /\ yielded = <<>>
    /\ session = None
    /\ executed = <<>>
    /\ entered = <<>>
    /\ passed = <<>>

\* no Resource is being constructed
ResourceIdle ==
    /\ _ref = <<>>
    /\ constructed = PyNone

Init ==
    /\ pipeline \in Pipelines
    /\ \E p \in InitialPlatforms : fs = p.fs /\ maps = p.maps
    /\ RunIdle
    /\ LoadIdle
    /\ ResourceIdle

\* -------------------------------------------------------------------- main
\* the overrides a run of this stream can be started with
Overrides(s) ==
    LET refs == {s[i].ref : i \in 1..Len(s)}
    IN  {[NoOverrides EXCEPT !.force = TRUE]}
        \cup {[NoOverrides EXCEPT !.only = r] : r \in refs}
        \cup {[NoOverrides EXCEPT !.skip.refs = {r}] : r \in refs}

\* main up to the loop over execute: the stream is loaded, State.load reads
\* the state file, and analyse is set up with the overrides of the command line
Start(o) ==
    /\ pc = "idle"
    /\ run < MaxRuns
    /\ stream' = load(pipeline)
    /\ history' = disk
    /\ opts' = o
    /\ created' = EmptyDict
    /\ statuses' = EmptyDict
    /\ completed' = {}
    /\ idx' = 0
    /\ events' = <<>>
    /\ calls' = <<>>
    /\ run' = run + 1
    /\ start' = [fs |-> fs, mtime |-> mtime, maps |-> maps, region |-> region,
                 history |-> disk, since |-> since, code |-> code]
    /\ prev' = [code |-> code, stream |-> stream, opts |-> opts, start |-> start,
                events |-> events]
    /\ since' = {}
    /\ pc' = "analyse"
    /\ UNCHANGED <<resourceVars, loadVars, pipeline, platformVars, disk, region_hash, code, raises,
                   changes>>

\* a run without --force, --skip or --only
StartRun == Start(NoOverrides) /\ UNCHANGED overridden

\* a run with --force, --skip or --only
StartOverridden ==
    /\ overridden < MaxOverridden
    /\ overridden' = overridden + 1
    /\ \E o \in Overrides(load(pipeline)) : Start(o)

\* the run ends with an exception: main reports it and exits 1, saving nothing
Abort ==
    /\ events' = Append(events, <<"TaskFatal", None>>)
    /\ code' = 1
    /\ pc' = "idle"

\* mutant: analyse classifies every remaining task before yielding the next
AnalyseTask_Ahead ==
    /\ pc = "analyse"
    /\ idx < Len(stream)
    /\ stream' = [k \in 1..Len(stream) |->
                    IF k > idx
                    THEN [stream[k] EXCEPT
                            !.status = _task_status(planner, stream[k])]
                    ELSE stream[k]]
    /\ statuses' = Put(statuses, stream[idx + 1].ref,
                       _task_status(planner, stream[idx + 1]))
    /\ region_hash' = Platform_region_hash
    /\ idx' = idx + 1
    /\ pc' = "execute"
    /\ UNCHANGED <<resourceVars, loadVars, pipeline, platformVars, disk,
                   history, opts, created, completed, events, calls, code,
                   run, start, prev, since, boundVars>>

\* analyse: the next task of the stream is classified and yielded
AnalyseTask ==
    /\ pc = "analyse"
    /\ idx < Len(stream)
    /\ LET task == stream[idx + 1]
           status == _task_status(planner, task)
       IN  /\ stream' = [stream EXCEPT ![idx + 1].status = status]
           /\ statuses' = Put(statuses, task.ref, status)
    /\ region_hash' = Platform_region_hash
    /\ idx' = idx + 1
    /\ pc' = "execute"
    /\ UNCHANGED <<resourceVars, loadVars, pipeline, platformVars, disk, history, opts, created,
                   completed, events, calls, code, run, start, prev, since,
                   boundVars>>

\* mutant: main exits without the final state.save()
AnalyseEnd_NoSave ==
    /\ pc = "analyse"
    /\ idx = Len(stream)
    /\ history' = [k \in DOMAIN history \cap completed |-> history[k]]
    /\ code' = 0
    /\ pc' = "idle"
    /\ UNCHANGED <<resourceVars, loadVars, pipeline, platformVars, disk, stream, idx, opts, plannerVars,
                   events, calls, run, start, prev, since, boundVars>>

\* mutant: the keys not encountered in the run are kept
AnalyseEnd_KeepAll ==
    /\ pc = "analyse"
    /\ idx = Len(stream)
    /\ history' = history
    /\ disk' = history'
    /\ code' = 0
    /\ pc' = "idle"
    /\ UNCHANGED <<resourceVars, loadVars, pipeline, platformVars, stream, idx, opts, plannerVars,
                   events, calls, run, start, prev, since, boundVars>>

\* analyse: the stream is exhausted; the keys not encountered are removed,
\* execute ends and main saves the state and exits 0
AnalyseEnd ==
    /\ pc = "analyse"
    /\ idx = Len(stream)
    /\ history' = [k \in DOMAIN history \cap completed |-> history[k]]
    /\ disk' = history'
    /\ code' = 0
    /\ pc' = "idle"
    /\ UNCHANGED <<resourceVars, loadVars, pipeline, platformVars, stream, idx, opts, plannerVars,
                   events, calls, run, start, prev, since, boundVars>>

\* mutant: execute goes on from a SKIP task without a TaskSkipEvent
ExecuteSkip_Silent ==
    /\ pc = "execute"
    /\ stream[idx].status = SKIP
    /\ events' = Append(events, <<"TaskStart", stream[idx].ref>>)
    /\ pc' = "resume"
    /\ UNCHANGED <<resourceVars, loadVars, pipeline, platformVars, disk,
                   history, stream, idx, opts, plannerVars, calls, code, run,
                   start, prev, since, boundVars>>

\* execute: a task with status SKIP
ExecuteSkip ==
    /\ pc = "execute"
    /\ stream[idx].status = SKIP
    /\ events' = events \o <<<<"TaskStart", stream[idx].ref>>,
                             <<"TaskSkip", stream[idx].ref>>>>
    /\ pc' = "resume"
    /\ UNCHANGED <<resourceVars, loadVars, pipeline, platformVars, disk, history, stream, idx, opts,
                   plannerVars, calls, code, run, start, prev, since, boundVars>>

\* mutant: execute goes on to the next task after a task with status FAIL
ExecuteFail_Continue ==
    /\ pc = "execute"
    /\ stream[idx].status = FAIL
    /\ events' = Append(events, <<"TaskStart", stream[idx].ref>>)
    /\ pc' = "resume"
    /\ UNCHANGED <<resourceVars, loadVars, pipeline, platformVars, disk, history, stream, idx,
                   opts, plannerVars, calls, code, run, start, prev, since,
                   boundVars>>

\* execute: a task with status FAIL raises Error
ExecuteFail ==
    /\ pc = "execute"
    /\ stream[idx].status = FAIL
    /\ events' = events \o <<<<"TaskStart", stream[idx].ref>>,
                             <<"TaskFatal", None>>>>
    /\ code' = 1
    /\ pc' = "idle"
    /\ UNCHANGED <<resourceVars, loadVars, pipeline, platformVars, disk, history, stream, idx, opts,
                   plannerVars, calls, run, start, prev, since, boundVars>>

\* execute: the callable of a RUN task returns; main saves the state on the
\* TaskCompleteEvent
ExecuteRun ==
    /\ pc = "execute"
    /\ stream[idx].status = RUN
    /\ CanStamp(stream[idx])
    /\ LET after == function(stream[idx])
       IN  /\ fs' = after.fs
           /\ mtime' = after.mtime
           /\ maps' = after.maps
           /\ region' = after.region
    /\ calls' = Append(calls, stream[idx].ref)
    /\ events' = events \o <<<<"TaskStart", stream[idx].ref>>,
                             <<"TaskComplete", stream[idx].ref>>>>
    /\ disk' = history
    /\ pc' = "resume"
    /\ UNCHANGED <<resourceVars, loadVars, pipeline, history, stream, idx, opts, plannerVars, code,
                   run, start, prev, since, boundVars>>

\* mutant: execute goes on to the next task after a callable raised
ExecuteRaise_Continue ==
    /\ pc = "execute"
    /\ stream[idx].status = RUN
    /\ raises < MaxRaises
    /\ raises' = raises + 1
    /\ calls' = Append(calls, stream[idx].ref)
    /\ events' = events \o <<<<"TaskStart", stream[idx].ref>>,
                             <<"TaskFatal", None>>>>
    /\ pc' = "resume"
    /\ UNCHANGED <<resourceVars, loadVars, pipeline, platformVars, disk,
                   history, stream, idx, opts, plannerVars, code, run, start,
                   prev, since, changes, overridden>>

\* execute: the callable of a RUN task raises
ExecuteRaise ==
    /\ pc = "execute"
    /\ stream[idx].status = RUN
    /\ raises < MaxRaises
    /\ raises' = raises + 1
    /\ calls' = Append(calls, stream[idx].ref)
    /\ events' = events \o <<<<"TaskStart", stream[idx].ref>>,
                             <<"TaskFatal", None>>>>
    /\ code' = 1
    /\ pc' = "idle"
    /\ UNCHANGED <<resourceVars, loadVars, pipeline, platformVars, disk, history, stream, idx, opts,
                   plannerVars, run, start, prev, since, changes,
                   overridden>>

\* mutant: an entry of the creator map is not overwritten
RECURSIVE Created_FirstWriter(_, _, _)
Created_FirstWriter(c, outputs, ref) ==
    IF outputs = <<>> THEN c
    ELSE Created_FirstWriter(
            IF Head(outputs)._ref \in DOMAIN c THEN c
            ELSE Put(c, Head(outputs)._ref, ref),
            Tail(outputs), ref)

\* planner.created after the outputs of a task are recorded
RECURSIVE Created(_, _, _)
Created(c, outputs, ref) ==
    IF outputs = <<>> THEN c
    ELSE Created(Put(c, Head(outputs)._ref, ref), Tail(outputs), ref)

\* del created[r] for each removed r raises KeyError
RECURSIVE KeyError(_, _)
KeyError(c, removes) ==
    IF removes = <<>> THEN FALSE
    ELSE IF Head(removes)._ref \notin DOMAIN c THEN TRUE
    ELSE KeyError(Del(c, Head(removes)._ref), Tail(removes))

\* planner.created after del created[r] for each removed r
RECURSIVE Removed(_, _)
Removed(c, removes) ==
    IF removes = <<>> THEN c
    ELSE Removed(Del(c, Head(removes)._ref), Tail(removes))

\* the file inputs of a task
FileInputs(t) == {i \in 1..Len(t.inputs) : t.inputs[i].type = "file"}

\* mutant: the mtime of a file input that has a record is not refreshed
TaskHistory_StaleMtime(h, t, rh) ==
    LET old == Get(h, t.hash, [inputs |-> EmptyDict])
        refs == {t.inputs[i]._ref : i \in FileInputs(t)}
    IN  [inputs |-> [r \in DOMAIN old.inputs \cup refs |->
                        IF r \in DOMAIN old.inputs THEN old.inputs[r]
                        ELSE file_mtime(r[2])],
         region |-> rh,
         message |-> t.message]

\* mutant: the record holds the region hash read after the callable returned
TaskHistory_RegionAfter(h, t, rh) ==
    LET old == Get(h, t.hash, [inputs |-> EmptyDict])
        refs == {t.inputs[i]._ref : i \in FileInputs(t)}
    IN  [inputs |-> [r \in DOMAIN old.inputs \cup refs |->
                        IF r \in refs THEN file_mtime(r[2]) ELSE old.inputs[r]],
         region |-> Platform_region_hash,
         message |-> t.message]

\* the history record analyse writes for a task
TaskHistory(h, t, rh) ==
    LET old == Get(h, t.hash, [inputs |-> EmptyDict])
        refs == {t.inputs[i]._ref : i \in FileInputs(t)}
    IN  [inputs |-> [r \in DOMAIN old.inputs \cup refs |->
                        IF r \in refs THEN file_mtime(r[2]) ELSE old.inputs[r]],
         region |-> rh,
         message |-> t.message]

\* analyse resumes after the yield: the planner state advances and the
\* history record of the task is written
AnalyseAdvance ==
    /\ pc = "resume"
    /\ LET task == stream[idx]
           c == Created(created, task.outputs, task.ref)
       IN  /\ ~KeyError(c, task.removes)
           /\ \A i \in FileInputs(task) : file_exists(task.inputs[i].path)
           /\ created' = Removed(c, task.removes)
           /\ completed' = completed \cup {task.hash}
           /\ history' = Put(history, task.hash,
                             TaskHistory(history, task, region_hash))
    /\ pc' = "analyse"
    /\ UNCHANGED <<resourceVars, loadVars, pipeline, platformVars, disk, stream, idx, opts, statuses,
                   region_hash, events, calls, code, run, start, prev, since,
                   boundVars>>

\* analyse resumes after the yield and del planner.created[...] raises KeyError
AnalyseKeyError ==
    /\ pc = "resume"
    /\ LET task == stream[idx]
       IN  KeyError(Created(created, task.outputs, task.ref), task.removes)
    /\ Abort
    /\ UNCHANGED <<resourceVars, loadVars, pipeline, platformVars, disk, history, stream, idx, opts,
                   plannerVars, calls, run, start, prev, since, boundVars>>

\* analyse resumes after the yield and os.stat of a missing input file raises
AnalyseStatError ==
    /\ pc = "resume"
    /\ LET task == stream[idx]
       IN  /\ ~KeyError(Created(created, task.outputs, task.ref), task.removes)
           /\ \E i \in FileInputs(task) : ~file_exists(task.inputs[i].path)
    /\ Abort
    /\ UNCHANGED <<resourceVars, loadVars, pipeline, platformVars, disk, history, stream, idx, opts,
                   plannerVars, calls, run, start, prev, since, boundVars>>

\* ------------------------------------------------------------- environment
\* Between two runs the user and other programs change files, maps, the
\* region and the pipeline file.
CanChange == pc = "idle" /\ run >= 1 /\ run < MaxRuns /\ changes < MaxChanges

Touch ==
    /\ CanChange
    /\ changes' = changes + 1
    /\ \E p \in fs :
        /\ mtime[p] < MaxTime
        /\ mtime' = [mtime EXCEPT ![p] = @ + 1]
        /\ since' = since \cup {<<"touch", p>>}
    /\ UNCHANGED <<resourceVars, loadVars, pipeline, fs, maps, region, disk, history, stream, idx, pc,
                   opts, plannerVars, events, calls, code, run, start, prev,
                   raises, overridden>>

DeleteFile ==
    /\ CanChange
    /\ changes' = changes + 1
    /\ \E p \in fs :
        /\ fs' = fs \ {p}
        /\ since' = since \cup {<<"delete", p>>}
    /\ UNCHANGED <<resourceVars, loadVars, pipeline, mtime, maps, region, disk, history, stream, idx,
                   pc, opts, plannerVars, events, calls, code, run, start,
                   prev, raises, overridden>>

DeleteMap ==
    /\ CanChange
    /\ changes' = changes + 1
    /\ \E m \in maps :
        /\ maps' = maps \ {m}
        /\ since' = since \cup {<<"delete", m[2]>>}
    /\ UNCHANGED <<resourceVars, loadVars, pipeline, fs, mtime, region, disk, history, stream, idx,
                   pc, opts, plannerVars, events, calls, code, run, start,
                   prev, raises, overridden>>

SetRegion ==
    /\ CanChange
    /\ changes' = changes + 1
    /\ \E r \in Regions \ {region} :
        /\ region' = r
        /\ since' = since \cup {<<"region", "">>}
    /\ UNCHANGED <<resourceVars, loadVars, pipeline, fs, mtime, maps, disk, history, stream, idx, pc,
                   opts, plannerVars, events, calls, code, run, start, prev,
                   raises, overridden>>

\* the message of a task entry is rewritten
EditMessage ==
    /\ CanChange
    /\ changes' = changes + 1
    /\ \E i \in 1..Len(pipeline) : \E m \in Messages \ {pipeline[i].message} :
        /\ pipeline' = [pipeline EXCEPT ![i].message = m]
        /\ since' = since \cup {<<"message", ToString(i - 1)>>}
    /\ UNCHANGED <<resourceVars, loadVars, platformVars, disk, history, stream, idx, pc, opts,
                   plannerVars, events, calls, code, run, start, prev, raises, overridden>>

\* a contributing field of a task entry is rewritten
EditConfig ==
    /\ CanChange
    /\ changes' = changes + 1
    /\ \E i \in 1..Len(pipeline) : \E c \in Catalog :
        /\ _object_checksum(c) # _object_checksum(pipeline[i])
        /\ pipeline' = [pipeline EXCEPT ![i] =
                [c EXCEPT !.message = pipeline[i].message,
                          !.always = pipeline[i].always]]
        /\ since' = since \cup {<<"config", ToString(i - 1)>>}
    /\ UNCHANGED <<resourceVars, loadVars, platformVars, disk, history, stream, idx, pc, opts,
                   plannerVars, events, calls, code, run, start, prev, raises, overridden>>

\* a task entry is taken out of the pipeline
RemoveTask ==
    /\ CanChange
    /\ changes' = changes + 1
    /\ Len(pipeline) > 1
    /\ \E i \in 1..Len(pipeline) :
        /\ pipeline' = [k \in 1..Len(pipeline) - 1 |->
                            IF k < i THEN pipeline[k] ELSE pipeline[k + 1]]
        /\ since' = since \cup {<<"remove", ToString(i - 1)>>}
    /\ UNCHANGED <<resourceVars, loadVars, platformVars, disk, history, stream, idx, pc, opts,
                   plannerVars, events, calls, code, run, start, prev, raises, overridden>>

Next ==
    \/ StartRun
    \/ AnalyseTask
    \/ AnalyseEnd
    \/ ExecuteSkip
    \/ ExecuteFail
    \/ ExecuteRun
    \/ ExecuteRaise
    \/ AnalyseAdvance
    \/ AnalyseKeyError
    \/ AnalyseStatError
    \/ Touch
    \/ DeleteFile
    \/ DeleteMap
    \/ SetRegion
    \/ EditMessage
    \/ EditConfig
    \/ RemoveTask

Spec == Init /\ [][Next]_vars

\* ---------------------------------------------- the calls of load checked
\* a task entry with nothing but a task kind, as in the tests
Foo(task) == Entry(task, 0, <<>>, <<>>, <<>>, FALSE)

\* params of a pipeline entry without gisdbase, location and mapset
NoParams == [gisdbase |-> Absent, location |-> Absent, mapset |-> Absent]

\* a pipeline entry
Call(name, params) == [pipeline |-> name, params |-> params]

\* an entry of a tasks list that names neither a task kind nor a pipeline
Bare == [message |-> "m"]

\* what a template renders to
Template(g, l, m, tasks) ==
    [gisdbase |-> g, location |-> l, mapset |-> m, tasks |-> tasks]

\* the templates: a root pipeline of up to MaxEntries entries that are tasks,
\* invoke P or Q or name no task kind, P invoking Q or not, each declaring a
\* scope or not
Environments ==
    LET params == {NoParams, [NoParams EXCEPT !.mapset = Str("other")]}
        rootEntries(pp) == {Foo("A"), Foo("C"), Call("P", pp),
                            Call("Q", NoParams), Bare}
        rootTasks(pp) ==
            UNION {[1..n -> rootEntries(pp)] : n \in 1..MaxEntries}
        pTasks == {<<Foo("B")>>, <<Call("Q", NoParams)>>,
                   <<Foo("B"), Call("Q", NoParams)>>,
                   <<Call("Q", NoParams), Foo("B")>>}
        roots == {Template(Absent, l, Absent, t) :
                    l \in {Absent, Str("foobar")},
                    t \in UNION {rootTasks(pp) : pp \in params}}
        ps == {Template(Absent, Absent, Absent, t) : t \in pTasks}
              \cup {Template(Absent, Str("rasters"), Str("soils"), t) :
                        t \in pTasks}
        qs == {Template(Absent, Absent, m, <<Foo("D")>>) :
                    m \in {Absent, Str("q")}}
    IN  {[mypipeline |-> r, P |-> pt, Q |-> q] :
            r \in roots, pt \in ps, q \in qs}

\* the calls of load: by main with the scope options given or not, and as
\* the tests call it
LoadCalls ==
    {[options |-> Call("mypipeline",
                       [gisdbase |-> Str("mydb"), location |-> Str("myloc"),
                        mapset |-> Str("ms")]),
      gisdbase |-> PyNone, location |-> PyNone, mapset |-> Str("PERMANENT")],
     [options |-> Call("mypipeline",
                       [gisdbase |-> PyNone, location |-> PyNone,
                        mapset |-> PyNone]),
      gisdbase |-> PyNone, location |-> PyNone, mapset |-> Str("PERMANENT")],
     [options |-> Call("mypipeline", NoParams),
      gisdbase |-> Str("mydb"), location |-> Str("myloc"),
      mapset |-> Str("PERMANENT")]}

\* load has been called and has not run yet
InitLoad ==
    /\ pipeline = <<>>
    /\ fs = {}
    /\ maps = {}
    /\ RunIdle
    /\ jinja_env \in Environments
    /\ \E call \in LoadCalls :
          /\ gisdbase = call.gisdbase
          /\ location = call.location
          /\ mapset = call.mapset
          /\ stack = <<Config(None, None, call.options, Absent)>>
    /\ locations = <<>>
    /\ yielded = <<>>
    /\ session = Absent
    /\ executed = <<>>
    /\ entered = <<>>
    /\ passed = <<>>
    /\ ResourceIdle

NextLoad ==
    \/ LoadPipeline
    \/ LoadTask
    \/ LoadLocation
    \/ LoadOther

\* the expansion of a pipeline and what becomes of the events
SpecLoad == InitLoad /\ [][NextLoad]_vars

\* ------------------------------- pipelines with several writers of a map
\* two tasks that write the map x from different files, a task that removes
\* it, a task that reads it and a task that reads and writes it
Writer(path) == Entry("script", 0, <<<<"file", path>>>>, <<VecX>>, <<>>, FALSE)
Remover == Entry("script", 0, <<>>, <<>>, <<VecX>>, FALSE)
Reader == Entry("script", 0, <<VecX>>, <<>>, <<>>, FALSE)
Rewriter == Entry("script", 0, <<VecX>>, <<VecX>>, <<>>, FALSE)

Chains ==
    {<<Writer(p), Writer(q), c>> : p, q \in Paths, c \in {Reader, Rewriter}}
    \cup {<<Writer(p), Writer(q), Remover, Reader>> : p, q \in Paths}

InitChains ==
    /\ pipeline \in Chains
    /\ \E p \in InitialPlatforms : fs = p.fs /\ maps = p.maps
    /\ RunIdle
    /\ LoadIdle
    /\ ResourceIdle

\* the runs of the pipelines with several writers
SpecChains == InitChains /\ [][Next]_vars

\* ------------------------------------- pipelines with a task that rewrites
\* its own input. The inputs and the outputs of an entry are independent
\* lists, so an entry may name one file in both; its callable then modifies
\* a file the task also reads.
InPlace == Entry("script", 0, <<FileB>>, <<FileB>>, <<>>, FALSE)

InPlacePipelines == UNION {[1..n -> Catalog \cup {InPlace}] : n \in 1..MaxTasks}

InitInPlace ==
    /\ pipeline \in InPlacePipelines
    /\ \E p \in InitialPlatforms : fs = p.fs /\ maps = p.maps
    /\ RunIdle
    /\ LoadIdle
    /\ ResourceIdle

SpecInPlace == InitInPlace /\ [][Next]_vars

\* ------------------------------------------ the Resources constructed
\* A reference string is the sequence of its pieces: the separators "/" and
\* "@", and pieces that hold no separator.
KindWords == {"file", "vector", "raster", "tiff"}
Chars == {"n", "a", "/", "@"}

\* the reference strings <kind>/<locator> with a locator of up to MaxLocator
\* characters, and the strings that are a kind alone
RefStrings ==
    {<<k, "/">> \o l : k \in KindWords,
                       l \in UNION {[1..n -> Chars] : n \in 0..MaxLocator}}
    \cup {<<k>> : k \in KindWords}

InitResource ==
    /\ pipeline = <<>>
    /\ fs = {}
    /\ maps = {}
    /\ RunIdle
    /\ LoadIdle
    /\ _ref \in RefStrings
    /\ constructed = PyNone

\* Resource(ref)
Construct ==
    /\ constructed = PyNone
    /\ constructed' = Resource__init__(_ref)
    /\ UNCHANGED <<runVars, loadVars, _ref>>

NextResource == Construct

SpecResource == InitResource /\ [][NextResource]_vars

\* the runs of Spec and the runs with an override
NextOverrides == Next \/ StartOverridden

SpecOverrides == Init /\ [][NextOverrides]_vars

\* ----------------------------------------------------------------- notions
\* the tasks of the stream that have been classified in the current run
Classified == {i \in 1..Len(stream) : stream[i].status # None}

\* analyse has just classified stream[idx]; nothing has happened since
JustClassified == pc = "execute"

NoAlways == \A i \in 1..Len(stream) : ~stream[i].always

\* the current run follows a run that completed
AfterCleanRun == run >= 2 /\ prev.code = 0

\* nothing was changed outside the program between the previous run and this
Untouched == run >= 1 /\ start.since = {}

\* a resource is on the platform p
ExistsOn(p, r) ==
    IF r.type = "file" THEN r.path \in p.fs ELSE <<r.type, r.name>> \in p.maps

AllExistOn(p, resources) ==
    \A k \in 1..Len(resources) : ExistsOn(p, resources[k])

\* with the history h and on the platform p, file input k of task t is newer
\* than the mtime recorded for it
StaleFile(h, p, t, k) ==
    /\ t.inputs[k].type = "file"
    /\ t.inputs[k].path \in p.fs
    /\ t.hash \in DOMAIN h
    /\ t.inputs[k]._ref \in DOMAIN h[t.hash].inputs
    /\ p.mtime[t.inputs[k].path] > h[t.hash].inputs[t.inputs[k]._ref]

HasStaleFile(h, p, t) == \E k \in 1..Len(t.inputs) : StaleFile(h, p, t, k)

\* the creator map holds an entry for store entry r when task i is
\* classified: an earlier task declares r as an output, and no task from
\* that one on and before i removes r
Producers(i, r) ==
    {j \in 1..(i - 1) : \E k \in 1..Len(stream[j].outputs) :
                            stream[j].outputs[k]._ref = r}

Removers(i, r) ==
    {j \in 1..(i - 1) : \E k \in 1..Len(stream[j].removes) :
                            stream[j].removes[k]._ref = r}

Max(S) == CHOOSE x \in S : \A y \in S : y <= x

HasCreator(i, r) ==
    /\ Producers(i, r) # {}
    /\ \A j \in Removers(i, r) : j < Max(Producers(i, r))

StoreInputsHaveCreator(i) ==
    \A k \in 1..Len(stream[i].inputs) :
        stream[i].inputs[k].type # "file" => HasCreator(i, stream[i].inputs[k]._ref)

\* the record of task i, if the run started with one, holds the region hash
\* the run started with
RegionInStep(i) ==
    stream[i].hash \in DOMAIN start.history =>
        start.history[stream[i].hash].region = start.region

\* when the run started no file input of task i was newer than recorded
MtimesInStep(i) ==
    \A k \in 1..Len(stream[i].inputs) :
        ~StaleFile(start.history, start, stream[i], k)

\* when the run started, the platform held every output and input of task i
\* and the record of the task, if any, was in step with the platform
InStep(i) ==
    /\ AllExistOn(start, stream[i].outputs)
    /\ AllExistOn(start, stream[i].inputs)
    /\ RegionInStep(i)
    /\ MtimesInStep(i)

\* the tasks of the stream that write an input of task i
Writers(i) ==
    {j \in 1..Len(stream) :
        \E k \in 1..Len(stream[i].inputs) : \E m \in 1..Len(stream[j].outputs) :
            stream[j].outputs[m]._ref = stream[i].inputs[k]._ref}

\* nothing but its own file inputs can make task i run in this run: it is
\* not always, its outputs and inputs were there when the run started, its
\* record holds the region hash the run started with, its store-entry inputs
\* have a visible creator, and no task that writes one of its inputs ran
\* before it in this run or after it in the previous run
Quiet(i) ==
    /\ ~stream[i].always
    /\ AllExistOn(start, stream[i].outputs)
    /\ AllExistOn(start, stream[i].inputs)
    /\ RegionInStep(i)
    /\ StoreInputsHaveCreator(i)
    /\ \A j \in Writers(i) :
          /\ j > i => prev.stream[j].status = SKIP
          /\ j < i => stream[j].status = SKIP

\* ------------------------------------------------------------------ claims
\* C1 as stated: for any pipeline with no always tasks, after one run that
\* completed, a second run with no overrides and nothing changed in between
\* classifies every task SKIP.
C1_AsStated ==
    (AfterCleanRun /\ Untouched /\ opts = NoOverrides /\ NoAlways)
        => \A i \in Classified : stream[i].status = SKIP

\* C1 amended: for any pipeline with no always tasks, after one run that
\* completed, a second run with no overrides and nothing changed in between
\* classifies every task SKIP, provided every store-entry input has a
\* visible creator earlier in the stream and, when the second run starts,
\* every declared output and input exists and every record is in step with
\* the platform (stored region hash equal to the current one, no file input
\* newer than recorded).
C1_IdempotentRerun ==
    (/\ AfterCleanRun /\ Untouched /\ opts = NoOverrides /\ NoAlways
     /\ \A i \in 1..Len(stream) : InStep(i) /\ StoreInputsHaveCreator(i))
        => \A i \in Classified : stream[i].status = SKIP

\* C1 witness: a second unchanged run of a two-task pipeline that ran in the
\* first run has classified both tasks SKIP.
C1_Witness ==
    /\ AfterCleanRun /\ Untouched /\ opts = NoOverrides /\ NoAlways
    /\ Len(stream) = 2 /\ Classified = {1, 2}
    /\ \A i \in 1..Len(stream) : InStep(i) /\ StoreInputsHaveCreator(i)
    /\ \A i \in 1..2 : stream[i].status = SKIP /\ prev.stream[i].status = RUN

\* task i ran in the previous run, which completed, with a file input newer
\* than recorded, and nothing was changed before this run
RanStale(i) ==
    /\ AfterCleanRun /\ Untouched
    /\ opts = NoOverrides /\ prev.opts = NoOverrides
    /\ prev.stream[i].status = RUN
    /\ HasStaleFile(prev.start.history, prev.start, prev.stream[i])

\* C2 as stated: a task with a record and a file input whose mtime is
\* greater than the recorded one is classified RUN, and in the run after
\* that run (nothing changed) it is classified SKIP.
C2_AsStated ==
    /\ (JustClassified /\ opts = NoOverrides
            /\ HasStaleFile(history, Platform, stream[idx]))
        => stream[idx].status = RUN
    /\ \A i \in Classified : RanStale(i) => stream[i].status = SKIP

\* C2 amended: a task with a record and a file input whose mtime is greater
\* than the recorded one is classified RUN provided all its inputs exist;
\* when that run completes, the run after it (nothing changed) classifies the
\* task SKIP provided nothing but that file could make it run (Quiet).
C2_FileStaleness ==
    /\ (JustClassified /\ opts = NoOverrides
            /\ HasStaleFile(history, Platform, stream[idx])
            /\ AllExistOn(Platform, stream[idx].inputs))
        => stream[idx].status = RUN
    /\ \A i \in Classified : (RanStale(i) /\ Quiet(i)) => stream[i].status = SKIP

\* C2 witness: a task whose input file was touched after a first run has run
\* in the second run and is SKIP in the third.
C2_Witness ==
    \E i \in Classified :
        /\ RanStale(i) /\ Quiet(i)
        /\ prev.start.since # {}
        /\ \A c \in prev.start.since : c[1] = "touch"
        /\ stream[i].status = SKIP

\* the store-entry inputs of task i
StoreInputs(i) ==
    {k \in 1..Len(stream[i].inputs) : stream[i].inputs[k].type # "file"}

\* task j declares r as an output
Outputs(j, r) ==
    \E m \in 1..Len(stream[j].outputs) : stream[j].outputs[m]._ref = r

\* no override decides the status of task i: neither force nor only is set
\* and the task is not in the skip list
ByEvidence(i) ==
    ~opts.force /\ opts.only = None /\ stream[i].ref \notin opts.skip.refs

\* the task the creator map holds for r when task i is classified
Creator(i, r) == Max(Producers(i, r))

\* C3 as stated: when an earlier task A declares store entry X as an output
\* and B declares X as an input, B is RUN in any run where A is RUN, and X
\* contributes NOCHANGE to B when A is SKIP.
C3_AsStated ==
    JustClassified =>
        \A k \in StoreInputs(idx) : \A a \in 1..(idx - 1) :
            Outputs(a, stream[idx].inputs[k]._ref) =>
                /\ stream[a].status = RUN => stream[idx].status = RUN
                /\ stream[a].status = SKIP =>
                      _INPUT_DECISION_TREE(planner, stream[idx],
                                           stream[idx].inputs[k]) = NOCHANGE

\* C3 amended: when A is the creator the creator map holds for store entry X
\* (the last earlier task that declares X as an output, X not removed since)
\* and B declares X as an input, then in any run where A is RUN and no
\* force/only/skip override decides B, B is RUN provided all of B's inputs
\* exist; when A is SKIP and X exists, X contributes NOCHANGE to B.
C3_CreatorPropagation ==
    JustClassified =>
        \A k \in StoreInputs(idx) :
            LET X == stream[idx].inputs[k]
            IN  HasCreator(idx, X._ref) =>
                  /\ (/\ stream[Creator(idx, X._ref)].status = RUN
                      /\ ByEvidence(idx)
                      /\ AllExistOn(Platform, stream[idx].inputs))
                        => stream[idx].status = RUN
                  /\ (/\ stream[Creator(idx, X._ref)].status = SKIP
                      /\ ExistsOn(Platform, X))
                        => _INPUT_DECISION_TREE(planner, stream[idx], X) = NOCHANGE

\* C3 witness: B has a record in step with the platform, its outputs exist
\* and none of its file inputs is newer than recorded, and it is RUN after
\* its creator ran.
C3_Witness ==
    /\ JustClassified /\ ByEvidence(idx) /\ ~stream[idx].always
    /\ \E k \in StoreInputs(idx) :
          /\ HasCreator(idx, stream[idx].inputs[k]._ref)
          /\ stream[Creator(idx, stream[idx].inputs[k]._ref)].status = RUN
    /\ FileInputs(stream[idx]) # {}
    /\ AllExistOn(Platform, stream[idx].inputs)
    /\ AllExistOn(Platform, stream[idx].outputs)
    /\ stream[idx].hash \in DOMAIN history
    /\ history[stream[idx].hash].region = region
    /\ ~HasStaleFile(history, Platform, stream[idx])
    /\ stream[idx].status = RUN

\* task t declares a file input that does not exist on platform p
MissingFileInput(p, t) ==
    \E k \in 1..Len(t.inputs) :
        t.inputs[k].type = "file" /\ ~ExistsOn(p, t.inputs[k])

\* C4 as stated: a task that is not forced, not selected or deselected by
\* only/skip and not `always`, and that declares a file input which does not
\* exist, is classified FAIL, whatever its outputs and the history are.
C4_AsStated ==
    (/\ JustClassified
     /\ ByEvidence(idx)
     /\ ~stream[idx].always
     /\ MissingFileInput(Platform, stream[idx]))
        => stream[idx].status = FAIL

\* the run has ended with an exception raised in execute: by a task of
\* status FAIL or by a callable
Aborted ==
    /\ pc = "idle" /\ run >= 1 /\ code = 1
    /\ Len(events) >= 2
    /\ events[Len(events) - 1][1] = "TaskStart"

\* the fingerprints of the tasks whose callable completed in this run
CompletedCallables ==
    {stream[i].hash : i \in {j \in 1..Len(stream) :
        \E n \in 1..Len(events) : events[n] = <<"TaskComplete", stream[j].ref>>}}

\* C5 as stated: whenever a run aborts, each task whose callable completed in
\* that run has its record on disk, and the record of every other fingerprint
\* is what it was when the run started.
C5_AsStated ==
    Aborted =>
        /\ CompletedCallables \subseteq DOMAIN disk
        /\ \A h \in (DOMAIN disk \cup DOMAIN start.history) \ CompletedCallables :
              /\ h \in DOMAIN disk
              /\ h \in DOMAIN start.history
              /\ disk[h] = start.history[h]

\* C6 as stated: processing a task classified SKIP leaves the record stored
\* under its fingerprint as it was, an absent record staying absent.
C6_AsStated ==
    [][(pc = "resume" /\ stream[idx].status = SKIP) =>
          LET h == stream[idx].hash
          IN  /\ (h \in DOMAIN history') = (h \in DOMAIN history)
              /\ h \in DOMAIN history => history'[h] = history[h]]_vars

\* the last run consumed the whole stream
Completed == pc = "idle" /\ run >= 1 /\ code = 0

\* the fingerprints of the tasks of the stream
Fingerprints == {stream[i].hash : i \in 1..Len(stream)}

\* C7: after a run that consumes the whole stream the key set of the history
\* store, in memory and on disk, is the set of fingerprints of the tasks of
\* that run's stream, so the store holds no more entries than the stream has
\* tasks.
C7_GarbageCollection ==
    Completed =>
        /\ DOMAIN disk = Fingerprints
        /\ DOMAIN history = Fingerprints
        /\ Cardinality(DOMAIN disk) <= Len(stream)

\* C7 witness: a completed run has deleted an entry the store held when the
\* run started.
C7_Witness ==
    /\ Completed
    /\ \E k \in DOMAIN start.history : k \notin DOMAIN disk

\* task t declares an output that is not on platform p
MissingOutput(p, t) ==
    \E k \in 1..Len(t.outputs) : ~ExistsOn(p, t.outputs[k])

\* the evidence of task i is unchanged when it is classified: it has a
\* record holding the current region hash, its inputs exist, no file input
\* is newer than recorded, and the creator of each store-entry input is SKIP
EvidenceUnchanged(i) ==
    /\ stream[i].hash \in DOMAIN history
    /\ history[stream[i].hash].region = region
    /\ AllExistOn(Platform, stream[i].inputs)
    /\ ~HasStaleFile(history, Platform, stream[i])
    /\ \A k \in StoreInputs(i) :
          /\ HasCreator(i, stream[i].inputs[k]._ref)
          /\ stream[Creator(i, stream[i].inputs[k]._ref)].status = SKIP

\* C8: a task to which no override applies, whose fingerprint is in history
\* and whose inputs are unchanged, is classified RUN whenever one of its
\* declared outputs does not exist; a task that is not `always`, whose
\* outputs all exist and whose evidence is unchanged, is classified SKIP.
C8_OutputMissing ==
    (JustClassified /\ ByEvidence(idx)) =>
        /\ (EvidenceUnchanged(idx) /\ MissingOutput(Platform, stream[idx]))
              => stream[idx].status = RUN
        /\ (/\ EvidenceUnchanged(idx)
            /\ ~MissingOutput(Platform, stream[idx])
            /\ ~stream[idx].always)
              => stream[idx].status = SKIP

\* C8 witness: in one run a task whose outputs exist has been classified
\* SKIP, and a later task with unchanged evidence and a missing output is
\* classified RUN.
C8_Witness ==
    /\ JustClassified /\ ByEvidence(idx)
    /\ EvidenceUnchanged(idx)
    /\ MissingOutput(Platform, stream[idx])
    /\ stream[idx].status = RUN
    /\ \E j \in 1..(idx - 1) :
          /\ stream[j].status = SKIP
          /\ stream[j].outputs # <<>>
          /\ AllExistOn(Platform, stream[j].outputs)

\* between the previous run and this one only messages of task entries were
\* changed
MessageOnly ==
    /\ run >= 1
    /\ start.since # {}
    /\ \A c \in start.since : c[1] = "message"

\* two task entries that differ only in message and always have the same
\* fingerprint: stated of each entry of the pipeline
SameFingerprint ==
    \A i \in 1..Len(pipeline) : \A m \in Messages : \A a \in BOOLEAN :
        _object_checksum([pipeline[i] EXCEPT !.message = m, !.always = a])
            = _object_checksum(pipeline[i])

\* C9 as stated: task entries that differ only in message and always have
\* the same fingerprint, and after a completed run, changing only a task's
\* message leaves every task classified SKIP on the next run.
C9_AsStated ==
    /\ SameFingerprint
    /\ (AfterCleanRun /\ MessageOnly /\ opts = NoOverrides)
          => \A i \in Classified : stream[i].status = SKIP

\* C9 amended: task entries that differ only in message and always have the
\* same fingerprint, and after a completed run, changing only a task's
\* message leaves every task classified SKIP on the next run without
\* overrides, provided the pipeline has no always task, every store-entry
\* input has a visible creator, and when the run starts every declared output
\* and input exists and every record is in step with the platform.
C9_FingerprintPurity ==
    /\ SameFingerprint
    /\ (/\ AfterCleanRun /\ MessageOnly /\ opts = NoOverrides /\ NoAlways
        /\ \A i \in 1..Len(stream) : InStep(i) /\ StoreInputsHaveCreator(i))
          => \A i \in Classified : stream[i].status = SKIP

\* C9 witness: after a run in which the tasks ran, a message was changed and
\* the next run has classified every task SKIP, the task with the new message
\* among them.
C9_Witness ==
    /\ AfterCleanRun /\ MessageOnly /\ opts = NoOverrides /\ NoAlways
    /\ \A i \in 1..Len(stream) : InStep(i) /\ StoreInputsHaveCreator(i)
    /\ Classified = 1..Len(stream)
    /\ \A i \in 1..Len(stream) :
          stream[i].status = SKIP /\ prev.stream[i].status = RUN
    /\ \E i \in 1..Len(stream) : stream[i].message # prev.stream[i].message

\* the changes made between the runs before the run that started with s:
\* only contributing fields of task entries were rewritten
ConfigOnly(s) ==
    /\ s.since # {}
    /\ \A c \in s.since : c[1] = "config"

\* the tasks of the stream whose entry was rewritten before the run that
\* started with s
Edited(s) == {i \in 1..Len(stream) : <<"config", stream[i].ref>> \in s.since}

\* task j consumes a store-entry output of task i
Consumes(j, i) ==
    \E k \in StoreInputs(j) :
        /\ HasCreator(j, stream[j].inputs[k]._ref)
        /\ Creator(j, stream[j].inputs[k]._ref) = i

\* this run follows, with nothing changed, a run that completed and that
\* itself followed a completed run and a change of contributing fields only
AfterEditedRun ==
    /\ AfterCleanRun /\ Untouched
    /\ opts = NoOverrides /\ prev.opts = NoOverrides
    /\ prev.start.code = 0
    /\ ConfigOnly(prev.start)

\* C10 as stated: after a completed run, changing a contributing field of a
\* task gives it a fingerprint absent from history; on the next run without
\* overrides the task is RUN, as are the later tasks consuming its store-entry
\* outputs, and a further unchanged run classifies every task SKIP.
C10_AsStated ==
    /\ (AfterCleanRun /\ ConfigOnly(start) /\ opts = NoOverrides) =>
          \A i \in Edited(start) :
              /\ stream[i].hash \notin DOMAIN start.history
              /\ i \in Classified => stream[i].status = RUN
              /\ (JustClassified /\ Consumes(idx, i)) => stream[idx].status = RUN
    /\ AfterEditedRun => \A i \in Classified : stream[i].status = SKIP

\* C10 amended: after a completed run, a task whose contributing fields were
\* changed to a fingerprint absent from history is RUN on the next run
\* without overrides, as are the later tasks consuming its store-entry
\* outputs whose inputs all exist; and a further unchanged run classifies
\* every task SKIP provided the pipeline has no always task, every
\* store-entry input has a visible creator, and when that run starts every
\* declared output and input exists and every record is in step with the
\* platform.
C10_ContributingChange ==
    /\ (AfterCleanRun /\ ConfigOnly(start) /\ opts = NoOverrides) =>
          \A i \in Edited(start) :
              stream[i].hash \notin DOMAIN start.history =>
                  /\ i \in Classified => stream[i].status = RUN
                  /\ (/\ JustClassified /\ Consumes(idx, i)
                      /\ AllExistOn(Platform, stream[idx].inputs))
                        => stream[idx].status = RUN
    /\ (/\ AfterEditedRun /\ NoAlways
        /\ \A i \in 1..Len(stream) : InStep(i) /\ StoreInputsHaveCreator(i))
          => \A i \in Classified : stream[i].status = SKIP

\* C10 witness: the run after the change ran the changed task, whose
\* fingerprint was new, and a task consuming its output, and the unchanged
\* run after that one has classified every task SKIP.
C10_Witness ==
    /\ AfterEditedRun /\ NoAlways
    /\ \A i \in 1..Len(stream) : InStep(i) /\ StoreInputsHaveCreator(i)
    /\ Classified = 1..Len(stream)
    /\ \A i \in 1..Len(stream) : stream[i].status = SKIP
    /\ \E i \in Edited(prev.start) :
          /\ stream[i].hash \notin DOMAIN prev.start.history
          /\ prev.stream[i].status = RUN
          /\ \E j \in (i + 1)..Len(stream) :
                Consumes(j, i) /\ prev.stream[j].status = RUN

\* isinstance(event, TaskEvent)
IsTaskEvent(e) == "task" \in DOMAIN e

\* the tasks in a sequence of events, each as <<reference path, task kind>>
RECURSIVE TasksOf(_)
TasksOf(seq) ==
    IF seq = <<>> THEN <<>>
    ELSE (IF IsTaskEvent(Head(seq))
          THEN <<<<Head(seq).ref, Head(seq).task>>>> ELSE <<>>)
         \o TasksOf(Tail(seq))

\* the pre-order traversal of template name invoked at path ref, from its
\* entry k on: a nested pipeline is expanded in full before the next sibling
RECURSIVE PreOrder(_, _, _)
PreOrder(name, ref, k) ==
    LET tasks == jinja_env[name].tasks
    IN  IF k > Len(tasks) THEN <<>>
        ELSE (IF "pipeline" \in DOMAIN tasks[k]
              THEN PreOrder(tasks[k].pipeline, Tref(ref, k - 1), 1)
              ELSE IF "task" \in DOMAIN tasks[k]
                   THEN <<<<Tref(ref, k - 1), tasks[k].task>>>>
                   ELSE <<>>)
             \o PreOrder(name, ref, k + 1)

\* s is a prefix of t
IsPrefix(s, t) == Len(s) <= Len(t) /\ s = SubSeq(t, 1, Len(s))

\* load has yielded every event
Expanded == jinja_env # <<>> /\ stack = <<>>

\* the root pipeline is [A, {pipeline: P}, C] and P contains [B]
ExampleABC ==
    /\ jinja_env # <<>>
    /\ Len(jinja_env.mypipeline.tasks) = 3
    /\ jinja_env.mypipeline.tasks[1] = Foo("A")
    /\ "pipeline" \in DOMAIN jinja_env.mypipeline.tasks[2]
    /\ jinja_env.mypipeline.tasks[2].pipeline = "P"
    /\ jinja_env.mypipeline.tasks[3] = Foo("C")
    /\ jinja_env.P.tasks = <<Foo("B")>>

\* C11: load yields the tasks in pre-order, a nested pipeline expanded in
\* full before the next sibling; for the root pipeline [A, {pipeline: P
\* containing [B]}, C] the events after the root LocationEvent are exactly A,
\* the LocationEvent of P, B, the LocationEvent of the root again, C, and the
\* reference path of B is "1/0".
C11_ExpansionOrder ==
    /\ jinja_env # <<>> =>
          IsPrefix(TasksOf(yielded), PreOrder("mypipeline", None, 1))
    /\ Expanded => TasksOf(yielded) = PreOrder("mypipeline", None, 1)
    /\ (Expanded /\ ExampleABC) =>
          /\ Len(yielded) = 6
          /\ ~IsTaskEvent(yielded[1])
          /\ IsTaskEvent(yielded[2]) /\ yielded[2].task = "A"
          /\ ~IsTaskEvent(yielded[3]) /\ entered[3].how = "enter"
          /\ IsTaskEvent(yielded[4]) /\ yielded[4].task = "B"
          /\ yielded[4].ref = "1/0" /\ yielded[4].pipeline = "P"
          /\ ~IsTaskEvent(yielded[5]) /\ yielded[5] = yielded[1]
          /\ IsTaskEvent(yielded[6]) /\ yielded[6].task = "C"

\* C11 witness: the pipeline [A, {pipeline: P containing [B]}, C] has been
\* expanded.
C11_Witness == Expanded /\ ExampleABC /\ Len(yielded) = 6

\* C12 as stated: the LocationEvent yielded after the subtree of a nested
\* pipeline is the LocationEvent of the pipeline that invoked it.
C12_AsStated ==
    \A k \in 1..Len(yielded) :
        entered[k].how = "restore" => yielded[k] = entered[k].caller

\* the position in yielded of the task with reference path ref
PositionOf(ref) ==
    CHOOSE k \in 1..Len(yielded) : IsTaskEvent(yielded[k]) /\ yielded[k].ref = ref

\* the last LocationEvent yielded before position k
ScopeBefore(k) ==
    yielded[Max({j \in 1..(k - 1) : ~IsTaskEvent(yielded[j])})]

\* C13 as stated: every task is executed in the scope of the last
\* LocationEvent that precedes it in the stream.
C13_AsStated ==
    \A n \in 1..Len(executed) :
        executed[n].scope = ScopeBefore(PositionOf(executed[n].ref))

\* C19 as stated: the LocationEvent of a nested pipeline whose entry
\* overrides no scope field and whose template declares none has the fields
\* of the LocationEvent of the invoking pipeline, each one a plain value.
C19_AsStated ==
    \A k \in 1..Len(yielded) :
        (/\ entered[k].how = "enter"
         /\ entered[k].caller # Absent
         /\ entered[k].inherits) =>
            /\ yielded[k].gisdbase = entered[k].caller.gisdbase
            /\ yielded[k].location = entered[k].caller.location
            /\ yielded[k].mapset = entered[k].caller.mapset
            /\ yielded[k].gisdbase.kind \in {"str", "None"}
            /\ yielded[k].location.kind \in {"str", "None"}
            /\ yielded[k].mapset.kind \in {"str", "None"}

\* C14: a task classified FAIL ends the run: it is the last task the
\* executor receives, no callable is invoked for it or for a later task, no
\* TaskStart is emitted for a later task, and the run ends with exit code 1.
C14_FailAborts ==
    \A k \in Classified :
        stream[k].status = FAIL =>
            /\ k = idx
            /\ pc = "execute" \/ (pc = "idle" /\ code = 1)
            /\ \A j \in k..Len(stream) : stream[j].ref \notin Range(calls)
            /\ \A j \in (k + 1)..Len(stream) :
                  <<"TaskStart", stream[j].ref>> \notin Range(events)

\* C14 witness: a run has ended on a FAIL task that is followed by another
\* task, which was not started.
C14_Witness ==
    /\ pc = "idle" /\ run >= 1 /\ code = 1
    /\ idx >= 1 /\ idx < Len(stream)
    /\ stream[idx].status = FAIL
    /\ events[Len(events)] = <<"TaskFatal", None>>
    /\ events[Len(events) - 1] = <<"TaskStart", stream[idx].ref>>

\* the reference paths of the tasks of the stream
TaskRefs == {stream[i].ref : i \in 1..Len(stream)}

\* every combination of force, only and skip analyse can be called with
AllOverrides ==
    {[force |-> f, skip |-> [given |-> TRUE, refs |-> r], only |-> o] :
        f \in BOOLEAN, r \in SUBSET TaskRefs, o \in {None} \cup TaskRefs}
    \cup {[force |-> f, skip |-> [given |-> FALSE, refs |-> {}], only |-> o] :
        f \in BOOLEAN, o \in {None} \cup TaskRefs}

\* the planner as it is, called with overrides o
PlannerWith(o) ==
    [planner EXCEPT !.force = o.force, !.skip = o.skip, !.only = o.only]

\* analyse is about to classify the next task of the stream
AboutToClassify == pc = "analyse" /\ idx < Len(stream)

\* C15: with force set every task is classified RUN whatever only, skip,
\* always and the evidence are; with force unset and only set a task is RUN
\* iff its reference path equals only and SKIP otherwise, whatever the skip
\* list, always and the evidence are. Stated of the classification made in
\* each run, and of the classification of the task about to be classified
\* under every combination of overrides and either value of always.
C15_ForceOnlyPrecedence ==
    /\ JustClassified =>
          /\ opts.force => stream[idx].status = RUN
          /\ (~opts.force /\ opts.only # None) =>
                stream[idx].status =
                    IF stream[idx].ref = opts.only THEN RUN ELSE SKIP
    /\ AboutToClassify =>
          \A o \in AllOverrides : \A a \in BOOLEAN :
              LET t == [stream[idx + 1] EXCEPT !.always = a]
                  status == _task_status(PlannerWith(o), t)
              IN  /\ o.force => status = RUN
                  /\ (~o.force /\ o.only # None) =>
                        status = IF t.ref = o.only THEN RUN ELSE SKIP

\* C15 witness: in a run with only set, an always task that is not the
\* selected one has been classified SKIP.
C15_Witness ==
    /\ JustClassified
    /\ ~opts.force /\ opts.only # None
    /\ stream[idx].ref # opts.only
    /\ stream[idx].always
    /\ stream[idx].status = SKIP

\* C16 as stated: with force and only unset, an always task whose reference
\* path is in the skip list is classified RUN, and a task without always in
\* the skip list is SKIP.
C16_AsStated ==
    (JustClassified /\ ~opts.force /\ opts.only = None
        /\ stream[idx].ref \in opts.skip.refs) =>
            stream[idx].status = IF stream[idx].always THEN RUN ELSE SKIP

\* C16 amended: with force and only unset, a task whose reference path is in
\* the skip list is classified SKIP whether or not it carries always; an
\* always task that is not in the skip list is RUN. Stated of the
\* classification made in each run, and of the task about to be classified
\* under every skip list and either value of always.
C16_SkipListPrecedence ==
    /\ (JustClassified /\ ~opts.force /\ opts.only = None) =>
          /\ stream[idx].ref \in opts.skip.refs => stream[idx].status = SKIP
          /\ (stream[idx].ref \notin opts.skip.refs /\ stream[idx].always)
                => stream[idx].status = RUN
    /\ AboutToClassify =>
          \A o \in AllOverrides : \A a \in BOOLEAN :
              LET t == [stream[idx + 1] EXCEPT !.always = a]
                  status == _task_status(PlannerWith(o), t)
              IN  (~o.force /\ o.only = None) =>
                      /\ t.ref \in o.skip.refs => status = SKIP
                      /\ (t.ref \notin o.skip.refs /\ a) => status = RUN

\* C16 witness: in a run with a skip list, an always task in the list has
\* been classified SKIP.
C16_Witness ==
    /\ JustClassified
    /\ ~opts.force /\ opts.only = None
    /\ stream[idx].ref \in opts.skip.refs
    /\ stream[idx].always
    /\ stream[idx].status = SKIP

\* C17: a task carrying always is classified RUN in every run in which only
\* is unset and the task is not in the skip list, whatever the history, the
\* outputs, the region and the inputs are. Stated of the classification made
\* in each run, and of the task about to be classified, taken as an always
\* task, under every such combination of overrides.
C17_AlwaysRuns ==
    /\ (JustClassified /\ stream[idx].always /\ opts.only = None
            /\ stream[idx].ref \notin opts.skip.refs)
          => stream[idx].status = RUN
    /\ AboutToClassify =>
          \A o \in AllOverrides :
              LET t == [stream[idx + 1] EXCEPT !.always = TRUE]
              IN  (o.only = None /\ t.ref \notin o.skip.refs)
                      => _task_status(PlannerWith(o), t) = RUN

\* C17 witness: an always task with a record, whose input file is gone, has
\* been classified RUN in a run without overrides.
C17_Witness ==
    /\ JustClassified /\ opts = NoOverrides
    /\ stream[idx].always
    /\ stream[idx].hash \in DOMAIN history
    /\ history[stream[idx].hash].region = region
    /\ MissingFileInput(Platform, stream[idx])
    /\ stream[idx].status = RUN

\* the callable of task t sets the region
SetsRegion(t) == t.task = "grass" /\ t.params # 0

\* task i ran in the previous run, which completed, with a record whose
\* region hash differed from the platform's and with all its outputs, and
\* nothing was changed before this run
RanRegionChanged(i) ==
    /\ AfterCleanRun /\ Untouched
    /\ opts = NoOverrides /\ prev.opts = NoOverrides
    /\ prev.stream[i].status = RUN
    /\ prev.stream[i].hash \in DOMAIN prev.start.history
    /\ prev.start.history[prev.stream[i].hash].region # prev.start.region
    /\ AllExistOn(prev.start, prev.stream[i].outputs)

\* nothing can make task i run in this run: it is not always, its outputs
\* and inputs were there when the run started, its store-entry inputs have a
\* visible creator, no task that writes one of its inputs ran after it in the
\* previous run or before it in this run, and no task that sets the region
\* ran from it on in the previous run or before it in this run
Settled(i) ==
    /\ ~stream[i].always
    /\ AllExistOn(start, stream[i].outputs)
    /\ AllExistOn(start, stream[i].inputs)
    /\ StoreInputsHaveCreator(i)
    /\ \A j \in Writers(i) :
          /\ j > i => prev.stream[j].status = SKIP
          /\ j < i => stream[j].status = SKIP
    /\ \A j \in i..Len(prev.stream) :
          prev.stream[j].status = RUN => ~SetsRegion(prev.stream[j])
    /\ \A j \in 1..(i - 1) :
          stream[j].status = RUN => ~SetsRegion(stream[j])

PathAt(p, i) == IF p = None THEN ToString(i) ELSE p \o "/" \o ToString(i)

\* the paths of the task entries of template name invoked at path p, each
\* derived from the position of the entry alone
RECURSIVE PositionPaths(_, _)
PositionPaths(name, p) ==
    LET tasks == jinja_env[name].tasks
    IN  UNION {IF "pipeline" \in DOMAIN tasks[k]
               THEN PositionPaths(tasks[k].pipeline, PathAt(p, k - 1))
               ELSE IF "task" \in DOMAIN tasks[k]
                    THEN {PathAt(p, k - 1)}
                    ELSE {} : k \in 1..Len(tasks)}

\* the positions in yielded that hold a TaskEvent
TaskPositions == {k \in 1..Len(yielded) : IsTaskEvent(yielded[k])}

\* C20: reference paths are derived from position and unique: the reference
\* paths of the TaskEvents of one expansion are the paths of the positions of
\* the task entries, str(i) at the root and p/i in a pipeline invoked at p,
\* and no two TaskEvents share one, whatever the content of the tasks.
C20_ReferencePaths ==
    jinja_env # <<>> =>
        /\ \A j, k \in TaskPositions :
              j # k => yielded[j].ref # yielded[k].ref
        /\ {yielded[k].ref : k \in TaskPositions}
              \subseteq PositionPaths("mypipeline", None)
        /\ Expanded =>
              {yielded[k].ref : k \in TaskPositions}
                  = PositionPaths("mypipeline", None)

\* C20 witness: an expansion has yielded two tasks of the same content from
\* a nested pipeline invoked twice, and after them a root task, all with
\* different reference paths.
C20_Witness ==
    /\ Expanded
    /\ \E j, k, n \in TaskPositions :
          /\ j < k /\ k < n
          /\ yielded[j].hash = yielded[k].hash
          /\ yielded[j].pipeline = "P" /\ yielded[k].pipeline = "P"
          /\ yielded[n].pipeline = "mypipeline"
          /\ yielded[j].ref = "0/0"
          /\ yielded[k].ref = "1/0"
          /\ yielded[n].ref = "2"

\* C21 as stated: an entry of a tasks list that names neither a task kind
\* nor a pipeline is never passed over: load does not go on from it without
\* raising an error that carries its reference path and owning pipeline.
C21_AsStated == passed = <<>>

\* C22 as stated: when analyse processes a task that declares X in removes
\* (the stat of its file inputs not failing), the run continues and X has no
\* creator-map entry afterwards, whether or not X had one before.
C22_AsStated ==
    [][(/\ pc = "resume"
        /\ stream[idx].removes # <<>>
        /\ \A i \in FileInputs(stream[idx]) :
              file_exists(stream[idx].inputs[i].path))
          => /\ pc' = "analyse"
             /\ \A k \in 1..Len(stream[idx].removes) :
                   stream[idx].removes[k]._ref \notin DOMAIN created']_vars

\* the number of occurrences of sep in str
Occurrences(str, sep) == Cardinality({i \in 1..Len(str) : str[i] = sep})

\* the kind and the locator of a reference string: what stands before and
\* after its first "/"
KindOf(str) == SubSeq(str, 1, Find(str, "/") - 1)
LocatorOf(str) == SubSeq(str, Find(str, "/") + 1, Len(str))

\* the construction has ended in an error
Rejected == "raises" \in DOMAIN constructed

\* the segments of the qualifier of a locator name@s1/.../sk, last first
Qualifier(locator) ==
    reversed(Split(SubSeq(locator, Find(locator, "@") + 1, Len(locator)), "/"))

\* C23 as stated: constructing a Resource from a spec whose kind is not
\* file, vector or raster, or from a vector/raster spec whose locator has
\* more than two @-delimited components, raises an error; for a locator
\* name@qualifier the segments of the qualifier are assigned from the last
\* one backwards to mapset, location and database.
C23_AsStated ==
    (constructed # PyNone /\ Find(_ref, "/") # 0) =>
        /\ KindOf(_ref) \notin {<<"file">>, <<"vector">>, <<"raster">>}
              => Rejected
        /\ (/\ KindOf(_ref) \in {<<"vector">>, <<"raster">>}
            /\ Occurrences(LocatorOf(_ref), "@") >= 2)
              => Rejected
        /\ (/\ KindOf(_ref) \in {<<"vector">>, <<"raster">>}
            /\ Occurrences(LocatorOf(_ref), "@") = 1)
              => LET q == Qualifier(LocatorOf(_ref))
                 IN  /\ ~Rejected
                     /\ constructed.mapset = Str(q[1])
                     /\ Len(q) >= 2 => constructed.location = Str(q[2])
                     /\ Len(q) >= 3 => constructed.gisdbase = Str(q[3])

\* task i reaches the input check: no override and no always flag decides
\* it, its outputs exist, and it has a record holding the current region hash
ReachesInputCheck(i) ==
    /\ _TASK_DECISION_TREE(planner, stream[i]) = None
    /\ AllExistOn(Platform, stream[i].outputs)
    /\ stream[i].hash \in DOMAIN history
    /\ history[stream[i].hash].region = Platform_region_hash

\* the task with its inputs in the order f
Reordered(t, f) == [t EXCEPT !.inputs = [k \in 1..Len(t.inputs) |-> t.inputs[f[k]]]]

\* C24: for a task that reaches the input check the status is FAIL if any
\* input is FAIL, otherwise RUN if any input is UNKNOWN, otherwise RUN if any
\* input is CHANGE, otherwise SKIP (the task without inputs included), and
\* the status is the same for every order of the inputs.
C24_InputAggregation ==
    (JustClassified /\ ReachesInputCheck(idx)) =>
        LET t == stream[idx]
            st == Range(InputStatuses(planner, t))
        IN  /\ t.status = IF INPUT_FAIL \in st THEN FAIL
                          ELSE IF UNKNOWN \in st THEN RUN
                          ELSE IF CHANGE \in st THEN RUN
                          ELSE SKIP
            /\ \A f \in Permutations(1..Len(t.inputs)) :
                  _task_status(planner, Reordered(t, f)) = t.status

\* C24 witness: a task with an input of unknown provenance listed before a
\* missing input has been classified FAIL.
C24_Witness ==
    /\ JustClassified /\ ReachesInputCheck(idx)
    /\ Len(stream[idx].inputs) = 2
    /\ InputStatuses(planner, stream[idx]) = <<UNKNOWN, INPUT_FAIL>>
    /\ stream[idx].status = FAIL

\* task i has an input of unknown provenance: a store entry that exists and
\* that no earlier task of the run declares as an output, or that a task
\* removes after the last one that does
UnknownProvenance(i) ==
    \E k \in StoreInputs(i) :
        /\ ExistsOn(Platform, stream[i].inputs[k])
        /\ ~HasCreator(i, stream[i].inputs[k]._ref)

\* C25 as stated: a task that reaches the input check and has an existing
\* store-entry input of unknown provenance is classified RUN, in every run.
C25_AsStated ==
    (JustClassified /\ ReachesInputCheck(idx) /\ UnknownProvenance(idx))
        => stream[idx].status = RUN

\* C25 amended: a task that reaches the input check, has an existing
\* store-entry input of unknown provenance and none of whose inputs is
\* missing is classified RUN, in every run; with an input missing it is FAIL.
C25_UnknownProvenance ==
    (JustClassified /\ ReachesInputCheck(idx) /\ UnknownProvenance(idx))
        => stream[idx].status =
              IF AllExistOn(Platform, stream[idx].inputs) THEN RUN ELSE FAIL

\* C25 witness: in the third run of an unchanged pipeline a task with an
\* input of unknown provenance is classified RUN, as it was in the second run
\* at the input check.
C25_Witness ==
    /\ JustClassified /\ ReachesInputCheck(idx) /\ UnknownProvenance(idx)
    /\ run = 3 /\ AfterCleanRun /\ Untouched /\ prev.start.since = {}
    /\ opts = NoOverrides /\ prev.opts = NoOverrides
    /\ stream[idx].hash \in DOMAIN prev.start.history
    /\ prev.stream[idx].status = RUN
    /\ stream[idx].status = RUN

\* the status of input X of the task just classified
InputStatus(X) == _INPUT_DECISION_TREE(planner, stream[idx], X)

\* C26 as stated: when several earlier tasks of the run declare store entry
\* X as an output, the input status of X for a later consumer is CHANGE iff
\* the most recent of them is not SKIP, and no task is the creator the map
\* holds for one of its own inputs.
C26_AsStated ==
    JustClassified =>
        \A k \in StoreInputs(idx) :
            LET X == stream[idx].inputs[k]
            IN  /\ Cardinality(Producers(idx, X._ref)) >= 2 =>
                      (InputStatus(X) = CHANGE
                          <=> stream[Creator(idx, X._ref)].status # SKIP)
                /\ X._ref \in DOMAIN created
                      => created[X._ref] # stream[idx].ref

\* C26 amended: when several earlier tasks of the run declare store entry X
\* as an output and no task removes X after the most recent of them, the
\* creator map holds the most recent one, and the input status of X for a
\* later consumer is CHANGE if that task is not SKIP, NOCHANGE if it is SKIP
\* and X exists, FAIL if X does not exist; no task is the creator the map
\* holds for one of its own inputs.
C26_LastWriterWins ==
    JustClassified =>
        \A k \in StoreInputs(idx) :
            LET X == stream[idx].inputs[k]
            IN  /\ (/\ Cardinality(Producers(idx, X._ref)) >= 2
                    /\ HasCreator(idx, X._ref)) =>
                      /\ created[X._ref] = stream[Creator(idx, X._ref)].ref
                      /\ InputStatus(X) =
                            IF ~ExistsOn(Platform, X) THEN INPUT_FAIL
                            ELSE IF stream[Creator(idx, X._ref)].status # SKIP
                                 THEN CHANGE ELSE NOCHANGE
                /\ X._ref \in DOMAIN created
                      => created[X._ref] # stream[idx].ref

\* C26 witness: of two earlier writers of X the first ran and the second was
\* skipped, and X is NOCHANGE for the consumer.
C26_Witness ==
    /\ JustClassified /\ idx = 3
    /\ Producers(idx, VecX) = {1, 2}
    /\ stream[1].status = RUN /\ stream[2].status = SKIP
    /\ stream[1].hash # stream[2].hash
    /\ InputStatus(Resource(VecX)) = NOCHANGE
    /\ stream[idx].status = SKIP

\* the number of tasks of the stream execute has handled
Handled == IF pc = "execute" THEN idx - 1 ELSE idx

\* events 2i-1 and 2i are the TaskStart of task i of the stream and what
\* became of the task: TaskSkip for a SKIP task, TaskComplete for a RUN task
\* whose callable was invoked, or the abort of the run
StartThenOutcome(i) ==
    LET t == stream[i]
    IN  /\ events[2 * i - 1] = <<"TaskStart", t.ref>>
        /\ \/ t.status = SKIP /\ events[2 * i] = <<"TaskSkip", t.ref>>
           \/ /\ t.status = RUN
              /\ events[2 * i] = <<"TaskComplete", t.ref>>
              /\ t.ref \in Range(calls)
           \/ /\ t.status \in {RUN, FAIL}
              /\ events[2 * i] = <<"TaskFatal", None>>
              /\ i = Handled /\ Len(events) = 2 * i
              /\ pc = "idle" /\ code = 1

StreamPosition(r) == CHOOSE i \in 1..Len(stream) : stream[i].ref = r

\* the callable invoked n-th in this run returned
Returned(n) == <<"TaskComplete", calls[n]>> \in Range(events)

\* C28: the callables are invoked in stream order and at most once per task
\* and run; the callable of a task is invoked only if every earlier task of
\* the stream was SKIP or had its callable return; a callable that raised is
\* the last one invoked in the run, which is over.
C28_Sequential ==
    /\ \A m, n \in 1..Len(calls) :
          m < n => StreamPosition(calls[m]) < StreamPosition(calls[n])
    /\ \A n \in 1..Len(calls) : \A j \in 1..(StreamPosition(calls[n]) - 1) :
          \/ stream[j].status = SKIP
          \/ /\ stream[j].status = RUN
             /\ \E m \in 1..(n - 1) : calls[m] = stream[j].ref /\ Returned(m)
    /\ \A n \in 1..Len(calls) :
          ~Returned(n) => n = Len(calls) /\ pc = "idle" /\ code = 1

\* C28 witness: the callable of the first task returned, the callable of the
\* second raised, and the third task was not classified.
C28_Witness ==
    /\ pc = "idle" /\ code = 1
    /\ Len(stream) >= 3 /\ idx = 2
    /\ stream[3].status = None
    /\ Len(calls) = 2
    /\ Returned(1) /\ ~Returned(2)
    /\ calls = <<stream[1].ref, stream[2].ref>>

\* the callable of task i raised in the previous run: the run ended with
\* exit code 1 on the TaskStart of the task, which was RUN
RaisedBefore(i) ==
    /\ run >= 2 /\ prev.code = 1
    /\ i \in 1..Len(prev.stream)
    /\ prev.stream[i].status = RUN
    /\ Len(prev.events) >= 2
    /\ prev.events[Len(prev.events) - 1] = <<"TaskStart", prev.stream[i].ref>>
    /\ prev.events[Len(prev.events)] = <<"TaskFatal", None>>

\* no two tasks of the stream have the same fingerprint
DistinctFingerprints ==
    \A i, j \in 1..Len(stream) : i # j => stream[i].hash # stream[j].hash

\* C29 as stated: a task whose callable raised in the previous run is
\* classified RUN in this run, when nothing was changed in between and the
\* run has no overrides (stated of the pipelines whose tasks have different
\* fingerprints).
C29_AsStated ==
    \A i \in Classified :
        (/\ RaisedBefore(i) /\ Untouched /\ opts = NoOverrides
         /\ DistinctFingerprints)
            => stream[i].status = RUN

\* task i was SKIP in the previous run because of the overrides of that run:
\* only was set to another task, or the task was in the skip list
SkippedByOverride(i) ==
    /\ run >= 2
    /\ i \in 1..Len(prev.stream)
    /\ prev.stream[i].status = SKIP
    /\ ~prev.opts.force
    /\ \/ prev.opts.only # None /\ prev.opts.only # prev.stream[i].ref
       \/ prev.opts.only = None /\ prev.stream[i].ref \in prev.opts.skip.refs

\* C30 as stated: a task that had a file input newer than recorded when the
\* previous run classified it SKIP because of only or the skip list is
\* classified RUN in this run, which has no overrides, nothing having changed
\* in between and all its inputs being there.
C30_AsStated ==
    \A i \in Classified :
        (/\ AfterCleanRun /\ Untouched /\ opts = NoOverrides
         /\ SkippedByOverride(i)
         /\ HasStaleFile(prev.start.history, prev.start, prev.stream[i])
         /\ AllExistOn(Platform, stream[i].inputs))
            => stream[i].status = RUN

\* the run started with an empty history store: State.load found no entry
EmptyStore == run >= 1 /\ start.history = EmptyDict

\* C31 as stated: in a run that starts with an empty history store and has
\* no overrides no task is classified SKIP, a task with the fingerprint of
\* an earlier task of the stream included.
C31_AsStated ==
    (EmptyStore /\ opts = NoOverrides) =>
        \A i \in Classified : stream[i].status # SKIP

\* the region when task i of the stream s was classified, in a run that
\* started with the region r0: the one set by the last task before i that
\* executed and sets the region, r0 if there is none
RegionAt(s, r0, i) ==
    LET setters == {j \in 1..(i - 1) : s[j].status = RUN /\ SetsRegion(s[j])}
    IN  IF setters = {} THEN r0 ELSE s[Max(setters)].params

\* analyse has just written the record of stream[idx]
JustRecorded == pc = "analyse" /\ idx >= 1

\* the record of stream[idx] holds the region read when the task was
\* classified and, for every file input, the mtime the file has now, after
\* the callable
RecordedBeforeAndAfter ==
    LET task == stream[idx]
        record == history[task.hash]
    IN  /\ record.region = RegionAt(stream, start.region, idx)
        /\ \A k \in FileInputs(task) :
              record.inputs[task.inputs[k]._ref] = mtime[task.inputs[k].path]

\* in the previous run, which completed, the callable of task i changed the
\* region; nothing was changed before this run and neither run has overrides
ChangedRegion(i) ==
    /\ AfterCleanRun /\ Untouched
    /\ opts = NoOverrides /\ prev.opts = NoOverrides
    /\ prev.stream[i].status = RUN
    /\ SetsRegion(prev.stream[i])
    /\ prev.stream[i].params # RegionAt(prev.stream, prev.start.region, i)

\* the callable of task i changed the region two runs ago: the previous run
\* started untouched after a run that completed, with the region task i sets
\* and a record of task i holding another one, and classified the task RUN
ChangedRegionTwoBack(i) ==
    /\ run >= 3
    /\ AfterCleanRun /\ Untouched
    /\ opts = NoOverrides /\ prev.opts = NoOverrides
    /\ prev.start.since = {} /\ prev.start.code = 0
    /\ SetsRegion(prev.stream[i])
    /\ prev.start.region = prev.stream[i].params
    /\ prev.stream[i].hash \in DOMAIN prev.start.history
    /\ prev.start.history[prev.stream[i].hash].region # prev.start.region
    /\ prev.stream[i].status = RUN

\* no other task of the stream sets the region
OnlySetter(i) ==
    \A j \in 1..Len(stream) : j # i => ~SetsRegion(stream[j])

\* nothing but the region can make task i run
RegionOnly(i) ==
    /\ ~stream[i].always
    /\ stream[i].inputs = <<>>
    /\ AllExistOn(start, stream[i].outputs)

Finished(j) ==
    \/ /\ stream[j].status = SKIP
       /\ <<"TaskSkip", stream[j].ref>> \in Range(events)
    \/ /\ stream[j].status = RUN
       /\ stream[j].ref \in Range(calls)
       /\ <<"TaskComplete", stream[j].ref>> \in Range(events)

\* the resources task j declares under the field f
Declared(j, f) == {stream[j][f][k]._ref : k \in 1..Len(stream[j][f])}

\* resource r was produced in this run before task k is classified: the
\* callable of an earlier task that declares r as an output returned, and no
\* callable from that one on removed r
MadeInRun(k, r) ==
    \E j \in 1..(k - 1) :
        /\ stream[j].status = RUN
        /\ r \in Declared(j, "outputs")
        /\ \A m \in j..(k - 1) :
              stream[m].status = RUN => r \notin Declared(m, "removes")

\* C33: a task is classified only after every earlier task of the stream was
\* classified and execute was through with it, the callable of every earlier
\* RUN task having returned; when a task is classified, what the earlier
\* callables of the run produced is on the platform, and a task all of whose
\* inputs were produced in the run is not FAIL.
C33_Interleaved ==
    /\ \A k \in Classified : \A j \in 1..(k - 1) : Finished(j)
    /\ JustClassified =>
          \A f \in {"inputs", "outputs"} : \A k \in 1..Len(stream[idx][f]) :
              MadeInRun(idx, stream[idx][f][k]._ref)
                  => ExistsOn(Platform, stream[idx][f][k])
    /\ JustClassified =>
          ((\A r \in Declared(idx, "inputs") : MadeInRun(idx, r))
              => stream[idx].status # FAIL)

\* C33 witness: the second task of the stream reads a file that was not
\* there when the run started; the callable of the first task wrote it, and
\* the second task, which has a record, is classified RUN.
C33_Witness ==
    /\ JustClassified /\ idx = 2
    /\ stream[2].hash \in DOMAIN start.history
    /\ \E k \in FileInputs(stream[2]) :
          /\ stream[2].inputs[k].path \notin start.fs
          /\ MadeInRun(2, stream[2].inputs[k]._ref)
          /\ stream[2].inputs[k].path \in fs
    /\ Finished(1)
    /\ stream[2].status = RUN

\* every value of the creator map is a key of the status map, the statuses
\* are RUN, SKIP or FAIL, and the tasks that have one are the tasks analyse
\* has reached
WellFormed ==
    /\ \A r \in DOMAIN created : created[r] \in DOMAIN statuses
    /\ \A r \in DOMAIN statuses : statuses[r] \in {RUN, SKIP, FAIL}
    /\ DOMAIN statuses = {stream[i].ref : i \in 1..idx}
    /\ Classified = 1..idx
    /\ \A i \in 1..idx : stream[i].status = statuses[stream[i].ref]

\* within a run a status that was assigned stays as it is
AssignedOnce ==
    run' = run =>
        /\ \A r \in DOMAIN statuses :
              r \in DOMAIN statuses' /\ statuses'[r] = statuses[r]
        /\ \A i \in Classified : stream'[i].status = stream[i].status

\* C34: in every reachable state each value of the creator map is the
\* reference path of a task classified in this run, a key of the status
\* map, so that the lookup of the creator's status in an input check is
\* defined; each status is RUN, SKIP or FAIL, and a status once assigned is
\* not assigned again in the run.
C34_CreatorMapWellFormed == []WellFormed /\ [][AssignedOnce]_vars

\* C34 witness: the second task of the stream has been classified by the
\* status of the creator of its store-entry input, the first task.
C34_Witness ==
    /\ JustClassified /\ idx = 2
    /\ ReachesInputCheck(2)
    /\ \E k \in 1..Len(stream[2].inputs) :
          /\ stream[2].inputs[k].type # "file"
          /\ stream[2].inputs[k]._ref \in DOMAIN created
          /\ created[stream[2].inputs[k]._ref] = stream[1].ref
          /\ statuses[stream[1].ref] = RUN
    /\ stream[2].status = RUN

====
